---- MODULE Spec2Model ----
(***************************************************************************)
(* A model of sasl-scram-js: the SCRAM message codec, the key derivations  *)
(* of ScramAlgo and the client and server exchange objects.                *)
(*                                                                         *)
(* Representation.                                                         *)
(*   - A string is a sequence of characters.  A character is a pair:       *)
(*     <<"c", x>> is the literal character x, <<"b", byte>> is the Base64  *)
(*     character that encodes `byte`.                                      *)
(*   - A byte array is a sequence of bytes.  A byte is a set of atoms, an  *)
(*     element of the vector space over GF(2) spanned by the atoms; XOR is *)
(*     the symmetric difference and {} is the zero byte.  An atom          *)
(*     <<term, i>> is byte i of the value `term`, where a term is a random *)
(*     buffer, the UTF-8 code of a character, the value of a Base64        *)
(*     letter, or the output of hash, HMAC or PBKDF2 on given inputs.      *)
(*     Digests are thus collision free: equal outputs have equal inputs.   *)
(*   - JavaScript's undefined string is the one-character string           *)
(*     Undefined, which no input contains.                                 *)
(***************************************************************************)
EXTENDS Integers, Sequences, FiniteSets, TLC

(***************************************************************************)
(* Bounds of the model.                                                    *)
(***************************************************************************)
\* bytes of a digest (20 to 64 for the SHA family of the package)
KeyLen == 2
\* bytes of a random nonce buffer (24 in the package)
NonceBytes == 3

(***************************************************************************)
(* Characters and strings.                                                 *)
(***************************************************************************)
Chr(x) == <<"c", x>>

COMMA == Chr(",")

EQUALS == Chr("=")

\* the string whose characters are the one-character strings of s
Str(s) == [i \in 1..Len(s) |-> Chr(s[i])]

Undefined == << <<"u", "undefined">> >>

\* JavaScript truthiness of a string value that may be undefined
Truthy(s) == s # <<>> /\ s # Undefined

IsWhitespace(ch) == ch \in {Chr(" "), Chr("\t")}

RECURSIVE TrimStart(_)
TrimStart(s) ==
    IF s # <<>> /\ IsWhitespace(Head(s)) THEN TrimStart(Tail(s)) ELSE s

RECURSIVE TrimEnd(_)
TrimEnd(s) ==
    IF s # <<>> /\ IsWhitespace(s[Len(s)])
    THEN TrimEnd(SubSeq(s, 1, Len(s) - 1))
    ELSE s

\* String.prototype.trim
Trim(s) == TrimEnd(TrimStart(s))

\* does s hold pat at 0-based position i
MatchesAt(s, pat, i) ==
    /\ i >= 0
    /\ i + Len(pat) <= Len(s)
    /\ \A k \in 1..Len(pat) : s[i + k] = pat[k]

\* String.prototype.indexOf(pat, from): 0-based, -1 when absent
IndexOf(s, pat, from) ==
    LET start == IF from < 0 THEN 0 ELSE from
        hits == {i \in start..(Len(s) - Len(pat)) : MatchesAt(s, pat, i)}
    IN  IF hits = {} THEN -1
        ELSE CHOOSE i \in hits : \A j \in hits : i <= j

\* String.prototype.substring(a, b): 0-based, b excluded, arguments clamped
Substring(s, a, b) ==
    LET clamp(x) == IF x < 0 THEN 0 ELSE IF x > Len(s) THEN Len(s) ELSE x
        lo == IF clamp(a) <= clamp(b) THEN clamp(a) ELSE clamp(b)
        hi == IF clamp(a) <= clamp(b) THEN clamp(b) ELSE clamp(a)
    IN  SubSeq(s, lo + 1, hi)

\* String.prototype.split(sep) for a non-empty separator
RECURSIVE Split(_, _)
Split(s, sep) ==
    LET i == IndexOf(s, sep, 0)
    IN  IF i = -1 THEN <<s>>
        ELSE <<Substring(s, 0, i)>> \o Split(Substring(s, i + Len(sep), Len(s)), sep)

\* array destructuring: element k of parts, undefined when absent
Element(parts, k) == IF k <= Len(parts) THEN parts[k] ELSE Undefined

RECURSIVE Join(_, _)
Join(parts, sep) ==
    IF parts = <<>> THEN <<>>
    ELSE IF Len(parts) = 1 THEN parts[1]
    ELSE parts[1] \o sep \o Join(Tail(parts), sep)

(***************************************************************************)
(* Numbers in strings.                                                     *)
(***************************************************************************)
Digits == <<"0", "1", "2", "3", "4", "5", "6", "7", "8", "9">>

IsDigit(ch) == \E d \in 1..10 : ch = Chr(Digits[d])

DigitValue(ch) == (CHOOSE d \in 1..10 : ch = Chr(Digits[d])) - 1

\* the longest prefix of s made of decimal digits
RECURSIVE DigitPrefix(_)
DigitPrefix(s) ==
    IF s # <<>> /\ IsDigit(Head(s)) THEN <<Head(s)>> \o DigitPrefix(Tail(s)) ELSE <<>>

RECURSIVE DecimalValue(_)
DecimalValue(ds) ==
    IF ds = <<>> THEN 0
    ELSE 10 * DecimalValue(SubSeq(ds, 1, Len(ds) - 1)) + DigitValue(ds[Len(ds)])

\* a JavaScript number that is an integer or NaN
NaN == [nan |-> TRUE, value |-> 0]

Num(n) == [nan |-> FALSE, value |-> n]

\* parseInt(s) without a radix: leading whitespace and a sign are skipped and
\* the longest decimal prefix is read; NaN when there is no digit.  (A "0x"
\* prefix, which selects base 16, is not in the alphabet of the model.)
ParseInt(s) ==
    LET t == TrimStart(s)
        signed == t # <<>> /\ Head(t) \in {Chr("-"), Chr("+")}
        negative == t # <<>> /\ Head(t) = Chr("-")
        ds == DigitPrefix(IF signed THEN Tail(t) ELSE t)
    IN  IF ds = <<>> THEN NaN
        ELSE Num(IF negative THEN 0 - DecimalValue(ds) ELSE DecimalValue(ds))

RECURSIVE NatToString(_)
NatToString(n) ==
    IF n < 10 THEN <<Chr(Digits[n + 1])>>
    ELSE NatToString(n \div 10) \o <<Chr(Digits[(n % 10) + 1])>>

\* `${n}` for a number n
NumberToString(n) ==
    IF n.nan THEN Str(<<"N", "a", "N">>)
    ELSE IF n.value < 0 THEN <<Chr("-")>> \o NatToString(0 - n.value)
    ELSE NatToString(n.value)

(***************************************************************************)
(* Bytes.                                                                  *)
(***************************************************************************)
\* TextEncoder.encode: one byte per character of the model's alphabet
Utf8(s) == [i \in 1..Len(s) |-> {<< <<"chr", s[i]>>, 1 >>}]

\* the keylen bytes of the digest named by term
Digest(term) == [i \in 1..KeyLen |-> {<<term, i>>}]

\* the bytes are the whole output of one digest, in order
WholeDigest(bytes) ==
    /\ Len(bytes) = KeyLen
    /\ \A i \in 1..KeyLen : Cardinality(bytes[i]) = 1
    /\ LET first == CHOOSE a \in bytes[1] : TRUE
       IN  /\ first[1][1] \in {"hash", "hmac", "pbkdf2"}
           /\ \A i \in 1..KeyLen : bytes[i] = {<<first[1], i>>}

\* the bytes are the encoding of a string
WholeText(bytes) ==
    \A i \in 1..Len(bytes) :
        /\ Cardinality(bytes[i]) = 1
        /\ (CHOOSE a \in bytes[i] : TRUE)[1][1] = "chr"

\* the name under which a digest term holds its input: a one-to-one
\* naming of byte sequences that writes the output of a digest as the term
\* of the digest and the encoding of a string as the string
Named(bytes) ==
    IF bytes = <<>> THEN <<"raw", bytes>>
    ELSE IF WholeDigest(bytes) THEN <<"out", (CHOOSE a \in bytes[1] : TRUE)[1]>>
    ELSE IF WholeText(bytes)
    THEN <<"utf8", [i \in 1..Len(bytes) |-> (CHOOSE a \in bytes[i] : TRUE)[1][2]]>>
    ELSE <<"raw", bytes>>

\* Crypto.getRandomValues on a buffer of n bytes, k naming the outcome
RandomValues(k, n) == [i \in 1..n |-> {<< <<"rnd", k>>, i >>}]

XorByte(a, b) == (a \ b) \cup (b \ a)

\* xorArrayBuffer: the result has the length of leftBuffer; a byte missing
\* from rightBuffer reads as undefined, which ^ takes as 0, and bytes of
\* rightBuffer past the length of leftBuffer are never read
xorArrayBuffer(leftBuffer, rightBuffer) ==
    [i \in 1..Len(leftBuffer) |->
        IF i <= Len(rightBuffer)
        THEN XorByte(leftBuffer[i], rightBuffer[i])
        ELSE leftBuffer[i]]

(***************************************************************************)
(* Base64 (js-base64).  One character per byte stands for the four         *)
(* characters per three bytes of the real encoding; the padding, the       *)
(* alphabet and the lenient decoder are kept: fromUint8Array pads with "=" *)
(* to a multiple of three bytes, toUint8Array maps "-" and "_" to "+" and  *)
(* "/" and drops every character outside the alphabet before decoding.     *)
(***************************************************************************)
B64Letters ==
    {"A", "B", "C", "D", "E", "F", "G", "H", "I", "J", "K", "L", "M",
     "N", "O", "P", "Q", "R", "S", "T", "U", "V", "W", "X", "Y", "Z",
     "a", "b", "c", "d", "e", "f", "g", "h", "i", "j", "k", "l", "m",
     "n", "o", "p", "q", "r", "s", "t", "u", "v", "w", "x", "y", "z",
     "0", "1", "2", "3", "4", "5", "6", "7", "8", "9", "+", "/"}

\* the byte a Base64 letter stands for
LetterByte(x) == {<< <<"dec", x>>, 1 >>}

IsLetterByte(byte) ==
    /\ Cardinality(byte) = 1
    /\ (CHOOSE a \in byte : TRUE)[1][1] = "dec"

B64Char(byte) ==
    IF IsLetterByte(byte)
    THEN Chr((CHOOSE a \in byte : TRUE)[1][2])
    ELSE <<"b", byte>>

B64Padding(n) ==
    [i \in 1..((3 - (n % 3)) % 3) |-> EQUALS]

\* Base64.fromUint8Array
Base64FromUint8Array(bytes) ==
    [i \in 1..Len(bytes) |-> B64Char(bytes[i])] \o B64Padding(Len(bytes))

\* Base64.encode of a string
Base64Encode(s) == Base64FromUint8Array(Utf8(s))

UnURI(ch) ==
    IF ch = Chr("-") THEN Chr("+") ELSE IF ch = Chr("_") THEN Chr("/") ELSE ch

InB64Alphabet(ch) ==
    \/ ch[1] = "b"
    \/ ch[1] = "c" /\ UnURI(ch)[2] \in B64Letters

B64Value(ch) == IF ch[1] = "b" THEN ch[2] ELSE LetterByte(UnURI(ch)[2])

\* Base64.toUint8Array
Base64ToUint8Array(s) ==
    LET tidy == SelectSeq(s, InB64Alphabet)
    IN  [i \in 1..Len(tidy) |-> B64Value(tidy[i])]

(***************************************************************************)
(* SASLprep (the saslprep package).  Of the RFC 4013 tables the model      *)
(* keeps two characters: "~" stands for a character that is mapped to      *)
(* nothing (U+00AD) and "!" for a prohibited character (U+0007), on which  *)
(* the function throws.  Every other character is left as it is.           *)
(***************************************************************************)
MappedToNothing(ch) == ch = Chr("~")

Prohibited(ch) == ch = Chr("!")

KeptBySaslPrep(ch) == ~MappedToNothing(ch)

saslPrep(s) ==
    LET mapped == SelectSeq(s, KeptBySaslPrep)
    IN  [ok |-> \A i \in 1..Len(mapped) : ~Prohibited(mapped[i]),
         value |-> mapped]

(***************************************************************************)
(* ScramAlgo: the cryptographic primitives and the SCRAM key derivations.  *)
(***************************************************************************)
\* HMAC under `key` of `data` (crypto.subtle.sign with an imported key)
SubtleSignHmac(key, data) == Digest(<<"hmac", Named(key), Named(data)>>)

\* crypto.subtle.digest
SubtleDigest(data) == Digest(<<"hash", Named(data)>>)

\* crypto.subtle.deriveBits for PBKDF2; an iteration count below 1 is refused
SubtleDeriveBits(password, salt, iterations) ==
    [ok |-> iterations >= 1,
     value |-> Digest(<<"pbkdf2", Named(password), Named(salt), iterations>>)]

\* ScramAlgo.pbkdf2
pbkdf2(password, salt, iterations) == SubtleDeriveBits(password, salt, iterations)

\* ScramAlgo.hmac(message, secret): the key imported is `secret`, the second
\* argument, and the data signed is `message`, the first
hmac(message, secret) == SubtleSignHmac(secret, message)

\* ScramAlgo.hash
hash(text) == SubtleDigest(text)

\* ScramAlgo.getSaltedPassword: [ok, value], not ok when SASLprep or PBKDF2 throws
AlgoGetSaltedPassword(password, salt, iterations) ==
    LET prepedPassword == saslPrep(password)
        derived == pbkdf2(Utf8(prepedPassword.value), salt, iterations)
    IN  [ok |-> prepedPassword.ok /\ derived.ok, value |-> derived.value]

\* ScramAlgo.getClientKey
getClientKey(saltedPassword) ==
    hmac(saltedPassword, Utf8(Str(<<"C", "l", "i", "e", "n", "t", " ", "K", "e", "y">>)))

\* ScramAlgo.getStoredKey
getStoredKey(saltedPassword) == hash(getClientKey(saltedPassword))

\* ScramAlgo.getServerKey
getServerKey(saltedPassword) ==
    hmac(saltedPassword, Utf8(Str(<<"S", "e", "r", "v", "e", "r", " ", "K", "e", "y">>)))

(***************************************************************************)
(* readScramParamString: the dictionary of a parameter string, a function  *)
(* from the keys read to their values.                                     *)
(***************************************************************************)
NoParams == [k \in {} |-> <<>>]

\* PutParam keeping the value a key already has
PutParamKeepingFirst(results, left, right) ==
    [k \in DOMAIN results \cup {left} |-> IF k \in DOMAIN results THEN results[k] ELSE right]

PutParam(results, left, right) ==
    [k \in DOMAIN results \cup {left} |-> IF k = left THEN right ELSE results[k]]

RECURSIVE ReadParts(_, _)
ReadParts(parts, results) ==
    IF parts = <<>> THEN results
    ELSE LET part == Head(parts)
             index == IndexOf(part, <<EQUALS>>, 0)
             left == Trim(Substring(part, 0, index))
             right == Trim(Substring(part, index + 1, Len(part)))
         IN  ReadParts(Tail(parts),
                       IF index # -1 THEN PutParam(results, left, right) ELSE results)

readScramParamString(str) == ReadParts(Split(str, <<COMMA>>), NoParams)

\* params[key]: undefined when the key was not read
Param(params, key) ==
    IF Str(<<key>>) \in DOMAIN params THEN params[Str(<<key>>)] ELSE Undefined

(***************************************************************************)
(* The four message classes.  A constructor returns [ok, error, msg]: ok   *)
(* is FALSE when it throws (error is then the text of the exception) and   *)
(* msg is the object built otherwise.                                      *)
(***************************************************************************)
Thrown(text) == [ok |-> FALSE, error |-> text, msg |-> [unset |-> TRUE]]

Built(object) == [ok |-> TRUE, error |-> "", msg |-> object]

\* `x || false` of ScramMessageServerFinal
FalseValue == << <<"u", "false">> >>

OrFalse(x) == IF Truthy(x) THEN x ELSE FalseValue

ScramMessageClientFirst(message) ==
    LET index == IndexOf(message, <<COMMA>>, IndexOf(message, <<COMMA>>, 0) + 1) + 1
        header == Split(Substring(message, 0, index), <<COMMA>>)
        gs2CbindFlag == Element(header, 1)
        messageBare == Substring(message, index, Len(message))
        params == readScramParamString(message)
        nonce == Param(params, "r")
        mext == Param(params, "m")
        user == saslPrep(Param(params, "n"))
    IN  IF ~Truthy(Param(params, "n")) THEN Thrown("Unable to read client-first-message")
        ELSE IF ~user.ok THEN Thrown("Prohibited character")
        ELSE IF ~Truthy(nonce) \/ ~Truthy(user.value) \/ ~Truthy(gs2CbindFlag)
        THEN Thrown("Unable to read client-first-message")
        ELSE Built([message |-> message,
                    messageBare |-> messageBare,
                    user |-> user.value,
                    gs2CbindFlag |-> gs2CbindFlag,
                    nonce |-> nonce,
                    mext |-> mext])

ScramMessageServerFirst(message) ==
    LET params == readScramParamString(message)
        iterations == ParseInt(Param(params, "i"))
    IN  IF ~Truthy(Param(params, "r")) \/ ~Truthy(Param(params, "s"))
           \/ ~Truthy(Param(params, "i"))
        THEN Thrown("Unable to read server-first-message")
        ELSE IF iterations.nan THEN Thrown("Unable to read server-first-message")
        ELSE Built([message |-> message,
                    nonce |-> Param(params, "r"),
                    salt |-> Base64ToUint8Array(Param(params, "s")),
                    iterations |-> iterations.value])

\* a client-final constructor that does not test the proof
ScramMessageClientFinalProofUntested(message) ==
    LET parts == Split(message, <<COMMA, Chr("p"), EQUALS>>)
        clientFinalWithoutProof == Element(parts, 1)
        proof == Element(parts, 2)
        params == readScramParamString(clientFinalWithoutProof)
        gs2Header == Param(params, "c")
        nonce == Param(params, "r")
    IN  IF ~Truthy(gs2Header) \/ ~Truthy(nonce) \/ ~Truthy(clientFinalWithoutProof)
        THEN Thrown("Unable to read client-final-message")
        ELSE Built([message |-> message,
                    messageWithoutProof |-> clientFinalWithoutProof,
                    gs2Header |-> gs2Header,
                    nonce |-> nonce,
                    clientProof |-> proof])

\* a client-final constructor that exposes the whole text, proof included,
\* as the part without proof
ScramMessageClientFinalWholeText(message) ==
    LET parts == Split(message, <<COMMA, Chr("p"), EQUALS>>)
        clientFinalWithoutProof == Element(parts, 1)
        proof == Element(parts, 2)
        params == readScramParamString(clientFinalWithoutProof)
        gs2Header == Param(params, "c")
        nonce == Param(params, "r")
    IN  IF ~Truthy(gs2Header) \/ ~Truthy(nonce) \/ ~Truthy(clientFinalWithoutProof)
           \/ ~Truthy(proof)
        THEN Thrown("Unable to read client-final-message")
        ELSE Built([message |-> message,
                    messageWithoutProof |-> message,
                    gs2Header |-> gs2Header,
                    nonce |-> nonce,
                    clientProof |-> proof])

ScramMessageClientFinal(message) ==
    LET parts == Split(message, <<COMMA, Chr("p"), EQUALS>>)
        clientFinalWithoutProof == Element(parts, 1)
        proof == Element(parts, 2)
        params == readScramParamString(clientFinalWithoutProof)
        gs2Header == Param(params, "c")
        nonce == Param(params, "r")
    IN  IF ~Truthy(gs2Header) \/ ~Truthy(nonce) \/ ~Truthy(clientFinalWithoutProof)
           \/ ~Truthy(proof)
        THEN Thrown("Unable to read client-final-message")
        ELSE Built([message |-> message,
                    messageWithoutProof |-> clientFinalWithoutProof,
                    gs2Header |-> gs2Header,
                    nonce |-> nonce,
                    clientProof |-> proof])

ScramMessageServerFinal(message) ==
    LET params == readScramParamString(message)
        error == OrFalse(Param(params, "e"))
        verifier == OrFalse(Param(params, "v"))
    IN  IF error = FalseValue /\ verifier = FalseValue
        THEN Thrown("Unable to read server-final-message")
        ELSE Built([message |-> message, error |-> error, verifier |-> verifier])

(***************************************************************************)
(* The error tokens of ScramError.ts that the exchange uses.               *)
(***************************************************************************)
SCRAM_EXTENSIONS_NOT_SUPPORTED == 
    Str(<<"e", "x", "t", "e", "n", "s", "i", "o", "n", "s", "-", "n", "o", "t", "-", "s", "u", "p", "p", "o", "r", "t", "e", "d">>)

SCRAM_INVALID_PROOF == Str(<<"i", "n", "v", "a", "l", "i", "d", "-", "p", "r", "o", "o", "f">>)

SCRAM_CHANNEL_BINDING_NOT_SUPPORTED == 
    Str(<<"c", "h", "a", "n", "n", "e", "l", "-", "b", "i", "n", "d", "i", "n", "g", "-", "n", "o", "t", "-", "s", "u", "p", "p", "o", "r", "t", "e", "d">>)

SCRAM_UNKNOWN_USER == Str(<<"u", "n", "k", "n", "o", "w", "n", "-", "u", "s", "e", "r">>)

SCRAM_OTHER_ERROR == Str(<<"o", "t", "h", "e", "r", "-", "e", "r", "r", "o", "r">>)

(***************************************************************************)
(* The state: one client exchange and one server exchange, the caller's    *)
(* salted password, the result of the last call, and the messages an       *)
(* earlier exchange left on the transport; and, where two exchanges run    *)
(* at the same time, the two pairs of exchange objects with the calls      *)
(* suspended on each; and, where a text is read off the wire, the text and *)
(* what the message class made of it; and, where a salt generator is used  *)
(* on its own, the generator and the salts it returned; and, where a call  *)
(* is followed across its awaits, the frame of the suspended call.         *)
(***************************************************************************)
VARIABLES client, server, repo, callerSaltedPassword, ret, recorded, exchanges,
          drawn, deviations, pairs, parsing, salting, running

vars == <<client, server, repo, callerSaltedPassword, ret, recorded, exchanges,
          drawn, deviations, pairs, parsing, salting, running>>

\* an exchange slot that holds no message (undefined)
None == [unset |-> TRUE]

Slots == {"clientFirstMessage", "serverFirstMessage", "clientFinalMessage",
          "serverFinalMessage"}

\* new ScramRequestClient(algo, options)
ScramRequestClient(maxIterations) ==
    [clientFirstMessage |-> None, serverFirstMessage |-> None,
     clientFinalMessage |-> None, serverFinalMessage |-> None,
     gs2_header |-> Str(<<"n", ",">>),
     maxIterations |-> maxIterations]

\* new ScramRequestServer(algo, repo, saltGenerator, iterations, options)
ScramRequestServer(iterations, concealErrors) ==
    [clientFirstMessage |-> None, serverFirstMessage |-> None,
     clientFinalMessage |-> None, serverFinalMessage |-> None,
     iterations |-> iterations,
     concealErrors |-> concealErrors]

\* getAuthMessage leaving the server-first out of the transcript
getAuthMessageWithoutServerFirst(request, clientFinalWithoutProof) ==
    Utf8(Join(<<request.clientFirstMessage.messageBare,
                clientFinalWithoutProof>>, <<COMMA>>))

\* ScramRequest.getAuthMessage
getAuthMessage(request, clientFinalWithoutProof) ==
    Utf8(Join(<<request.clientFirstMessage.messageBare,
                request.serverFirstMessage.message,
                clientFinalWithoutProof>>, <<COMMA>>))

(***************************************************************************)
(* The collaborators: the salt policy and the user repository.             *)
(***************************************************************************)
Pepper == Str(<<"K">>)

\* a peppered salt that leaves the username out
PepperedSaltOfPepper(username) == hash(Utf8(<<Chr(":")>> \o Pepper))

\* PepperedSaltGenerator.get
PepperedSalt(username) == hash(Utf8(username \o <<Chr(":")>> \o Pepper))

\* registerUser of the tests: the record stored for a user
MockScramUser(username, salt, iterations, saltedPassword) ==
    [username |-> saslPrep(username).value,
     salt |-> salt,
     iterations |-> iterations,
     storedKey |-> getStoredKey(saltedPassword),
     serverKey |-> getServerKey(saltedPassword)]

\* the names every object inherits from Object.prototype, of which the model
\* keeps one: this.users[name] reads the inherited function for them
InheritedNames == {Str(<<"t", "o", "S", "t", "r", "i", "n", "g">>)}

\* the function read for an inherited name: it is truthy and has no
\* getSalt, getIterations, getStoredKey or getServerKey
InheritedProperty == [inherited |-> TRUE]

\* this.users[username]
UsersAt(users, username) ==
    IF username \in DOMAIN users THEN users[username]
    ELSE IF username \in InheritedNames THEN InheritedProperty
    ELSE None

\* a value the getters of ScramUser can be called on
IsScramUser(user) == user # InheritedProperty /\ user # None

\* the lookup yields a value that is no ScramUser: calling a getter on it
\* throws a TypeError
HoldsNoUser(users, username) ==
    UsersAt(users, username) # None /\ ~IsScramUser(UsersAt(users, username))

\* the name of the error thrown for a call of what is no function
TypeError == "TypeError"

\* `${undefined}` in a template literal
UndefinedText == Str(<<"u", "n", "d", "e", "f", "i", "n", "e", "d">>)

\* MockScramUserRepo.has: Boolean(this.users[username])
RepoHas(users, username) == UsersAt(users, username) # None

\* MockScramUserRepo.find: [ok, user], not ok when it throws
\* ScramError(SCRAM_UNKNOWN_USER)
RepoFind(users, username) ==
    IF RepoHas(users, username)
    THEN [ok |-> TRUE, errorCode |-> <<>>, user |-> UsersAt(users, username)]
    ELSE [ok |-> FALSE, errorCode |-> SCRAM_UNKNOWN_USER, user |-> None]

(***************************************************************************)
(* The outcome of a call: it returns `value`, or throws an Error whose     *)
(* message is `error`.                                                     *)
(***************************************************************************)
Return(value) == [threw |-> FALSE, error |-> "", value |-> value]

Throw(error) == [threw |-> TRUE, error |-> error, value |-> None]

\* the outcome of a call that ends by constructing a message
Construct(built) == IF built.ok THEN Return(built.msg) ELSE Throw(built.error)

(***************************************************************************)
(* ScramRequestClient.                                                     *)
(***************************************************************************)

\* getSaltedPassword refusing an iteration count equal to the maximum too
ClientGetSaltedPasswordBelowMaximum(request, password) ==
    IF request.clientFirstMessage # None /\ request.serverFirstMessage # None
    THEN LET salt == request.serverFirstMessage.salt
             iterations == request.serverFirstMessage.iterations
             derived == pbkdf2(Utf8(password), salt, iterations)
         IN  IF iterations >= request.maxIterations
             THEN Throw("Iteration count exceeed maximum")
             ELSE IF derived.ok THEN Return(derived.value)
             ELSE Throw("OperationError")
    ELSE Throw("Unable to create salted password, missing client-first-message or server-first-message.")

\* getSaltedPassword(password)
ClientGetSaltedPassword(request, password) ==
    IF request.clientFirstMessage # None /\ request.serverFirstMessage # None
    THEN LET salt == request.serverFirstMessage.salt
             iterations == request.serverFirstMessage.iterations
             derived == pbkdf2(Utf8(password), salt, iterations)
         IN  IF iterations > request.maxIterations
             THEN Throw("Iteration count exceeed maximum")
             ELSE IF derived.ok THEN Return(derived.value)
             ELSE Throw("OperationError")
    ELSE Throw("Unable to create salted password, missing client-first-message or server-first-message.")

\* the text createClientFirstMessage(user) builds, k naming the random bytes
ClientFirstText(request, user, k) ==
    LET c_nonce == Base64FromUint8Array(RandomValues(k, NonceBytes))
    IN  request.gs2_header \o Str(<<",", "n", "=">>) \o user
            \o Str(<<",", "r", "=">>) \o c_nonce

\* createClientFirstMessage(user)
CreateClientFirstMessage(request, user, k) ==
    Construct(ScramMessageClientFirst(ClientFirstText(request, user, k)))

\* a proof that is the ClientKey itself, sent without the ClientSignature
\* over it
ClientProofUnmasked(clientKey, clientSignature) == Base64FromUint8Array(clientKey)

\* the proof of createClientFinalMessage
ClientProof(clientKey, clientSignature) ==
    Base64FromUint8Array(xorArrayBuffer(clientKey, clientSignature))

\* the c=...,r=... part with the nonce of the client-first in place of the
\* nonce of the server-first
ClientFinalWithoutProofOwnNonce(request) ==
    LET gs2header == Base64Encode(request.gs2_header \o <<COMMA>>)
        nonce == request.clientFirstMessage.nonce
    IN  Str(<<"c", "=">>) \o gs2header \o Str(<<",", "r", "=">>) \o nonce

\* the c=...,r=... part that createClientFinalMessage builds
ClientFinalWithoutProof(request) ==
    LET gs2header == Base64Encode(request.gs2_header \o <<COMMA>>)
        nonce == request.serverFirstMessage.nonce
    IN  Str(<<"c", "=">>) \o gs2header \o Str(<<",", "r", "=">>) \o nonce

\* the text createClientFinalMessage(saltedPassword) builds
ClientFinalText(request, saltedPassword) ==
    LET clientKey == getClientKey(saltedPassword)
        storedKey == getStoredKey(saltedPassword)
        clientFinalWithoutProof == ClientFinalWithoutProof(request)
        authMessage == getAuthMessage(request, clientFinalWithoutProof)
        clientSignature == hmac(storedKey, authMessage)
        proof == ClientProof(clientKey, clientSignature)
    IN  clientFinalWithoutProof \o Str(<<",", "p", "=">>) \o proof

\* createClientFinalMessage(saltedPassword)
CreateClientFinalMessage(request, saltedPassword) ==
    IF request.clientFirstMessage # None /\ request.serverFirstMessage # None
    THEN Construct(ScramMessageClientFinal(ClientFinalText(request, saltedPassword)))
    ELSE Throw("Unable to create client-final-message, missing client-first-message or server-first-message.")

\* the verifier verifyServerFinalMessage expects
ExpectedVerifier(request, saltedPassword) ==
    LET serverKey == getServerKey(saltedPassword)
        authMessage ==
            getAuthMessage(request, request.clientFinalMessage.messageWithoutProof)
    IN  Base64FromUint8Array(hmac(serverKey, authMessage))

\* verifyServerFinalMessage comparing the decoded bytes of the two verifiers
VerifyServerFinalMessageDecoded(request, saltedPassword) ==
    IF /\ request.clientFirstMessage # None
       /\ request.serverFirstMessage # None
       /\ request.clientFinalMessage # None
       /\ request.serverFinalMessage # None
    THEN Return(Base64ToUint8Array(request.serverFinalMessage.verifier)
                    = Base64ToUint8Array(ExpectedVerifier(request, saltedPassword)))
    ELSE Throw("Unable to verify server-final-message, missing client-first-message, server-first-message, client-final-message or server-final-message.")

\* verifyServerFinalMessage(saltedPassword)
VerifyServerFinalMessage(request, saltedPassword) ==
    IF /\ request.clientFirstMessage # None
       /\ request.serverFirstMessage # None
       /\ request.clientFinalMessage # None
       /\ request.serverFinalMessage # None
    THEN Return(request.serverFinalMessage.verifier = ExpectedVerifier(request, saltedPassword))
    ELSE Throw("Unable to verify server-final-message, missing client-first-message, server-first-message, client-final-message or server-final-message.")

(***************************************************************************)
(* ScramRequestServer.                                                     *)
(***************************************************************************)

\* ServerFirstText drawing the salt of an unknown user from the random
\* source, as a random salt policy does
ServerFirstTextRandomSalt(request, users, k) ==
    LET username == request.clientFirstMessage.user
        c_nonce == request.clientFirstMessage.nonce
        known == RepoHas(users, username)
        salt == IF known THEN users[username].salt
                ELSE hash(RandomValues(k, NonceBytes))
        iterations == IF known THEN users[username].iterations ELSE request.iterations
        encodedSalt == Base64FromUint8Array(salt)
        s_nonce == Base64FromUint8Array(RandomValues(k, NonceBytes))
        nonce == c_nonce \o s_nonce
    IN  Str(<<"r", "=">>) \o nonce \o Str(<<",", "s", "=">>) \o encodedSalt
            \o Str(<<",", "i", "=">>) \o NumberToString(Num(iterations))

\* ServerFirstText reusing one random buffer for every server nonce
ServerFirstTextStaleNonce(request, users, k) ==
    LET username == request.clientFirstMessage.user
        c_nonce == request.clientFirstMessage.nonce
        known == RepoHas(users, username)
        salt == IF known THEN users[username].salt ELSE PepperedSalt(username)
        iterations == IF known THEN users[username].iterations ELSE request.iterations
        encodedSalt == Base64FromUint8Array(salt)
        s_nonce == Base64FromUint8Array(RandomValues(0, NonceBytes))
        nonce == c_nonce \o s_nonce
    IN  Str(<<"r", "=">>) \o nonce \o Str(<<",", "s", "=">>) \o encodedSalt
            \o Str(<<",", "i", "=">>) \o NumberToString(Num(iterations))

\* the text createServerFirstMessage builds, k naming the random bytes
ServerFirstText(request, users, k) ==
    LET username == request.clientFirstMessage.user
        c_nonce == request.clientFirstMessage.nonce
        known == RepoHas(users, username)
        salt == IF known THEN users[username].salt ELSE PepperedSalt(username)
        iterations == IF known THEN users[username].iterations ELSE request.iterations
        encodedSalt == Base64FromUint8Array(salt)
        s_nonce == Base64FromUint8Array(RandomValues(k, NonceBytes))
        nonce == c_nonce \o s_nonce
    IN  Str(<<"r", "=">>) \o nonce \o Str(<<",", "s", "=">>) \o encodedSalt
            \o Str(<<",", "i", "=">>) \o NumberToString(Num(iterations))

\* createServerFirstMessage()
CreateServerFirstMessage(request, users, k) ==
    IF request.clientFirstMessage # None
    THEN IF HoldsNoUser(users, request.clientFirstMessage.user)
         THEN Throw(TypeError)
         ELSE Construct(ScramMessageServerFirst(ServerFirstText(request, users, k)))
    ELSE Throw("Unable to create server-first-message, missing client-first-message.")

\* ProofMatches comparing the sizes of the two keys, not their bytes
ProofMatchesInLength(storedKey, clientKey) ==
    Len(Base64FromUint8Array(storedKey)) = Len(Base64FromUint8Array(hash(clientKey)))

\* the comparison that ends verifyClientFinalMessage
ProofMatches(storedKey, clientKey) ==
    Base64FromUint8Array(storedKey) = Base64FromUint8Array(hash(clientKey))

\* the body of verifyClientFinalMessage once the three slots are known set
ClientProofVerifies(request, users) ==
    LET username == request.clientFirstMessage.user
        user == users[username]
        clientProof == Base64ToUint8Array(request.clientFinalMessage.clientProof)
        storedKey == user.storedKey
        authMessage ==
            getAuthMessage(request, request.clientFinalMessage.messageWithoutProof)
        clientSignature == hmac(storedKey, authMessage)
        clientKey == xorArrayBuffer(clientSignature, clientProof)
    IN  IF ~RepoHas(users, username) THEN FALSE
        ELSE ProofMatches(storedKey, clientKey)

\* verifyClientFinalMessage()
VerifyClientFinalMessage(request, users) ==
    IF /\ request.clientFirstMessage # None
       /\ request.serverFirstMessage # None
       /\ request.clientFinalMessage # None
    THEN IF HoldsNoUser(users, request.clientFirstMessage.user)
         THEN Throw(TypeError)
         ELSE Return(ClientProofVerifies(request, users))
    ELSE Throw("Unable to verify client-final-message, missing client-first-message, server-first-message, or client-final-message.")

\* ServerVerifier signing with the stored key in place of the server key
ServerVerifierFromStoredKey(request, user) ==
    LET authMessage ==
            getAuthMessage(request, request.clientFinalMessage.messageWithoutProof)
    IN  Base64FromUint8Array(hmac(user.storedKey, authMessage))

\* the verifier createServerFinalMessage computes for a stored user
ServerVerifier(request, user) ==
    LET serverKey == user.serverKey
        authMessage ==
            getAuthMessage(request, request.clientFinalMessage.messageWithoutProof)
    IN  Base64FromUint8Array(hmac(serverKey, authMessage))

\* ServerFinalChecks verifying the proof before it looks the user up
ServerFinalChecksProofFirst(request, users) ==
    LET username == request.clientFirstMessage.user
        found == RepoFind(users, username)
        failed(code) == [ok |-> FALSE, errorCode |-> code, proof |-> <<>>]
    IN  IF Truthy(request.clientFirstMessage.mext)
        THEN failed(SCRAM_EXTENSIONS_NOT_SUPPORTED)
        ELSE IF request.clientFirstMessage.gs2CbindFlag # Str(<<"n">>)
        THEN failed(SCRAM_CHANNEL_BINDING_NOT_SUPPORTED)
        ELSE IF ~ClientProofVerifies(request, users)
        THEN failed(SCRAM_INVALID_PROOF)
        ELSE IF ~found.ok THEN failed(found.errorCode)
        ELSE [ok |-> TRUE, errorCode |-> <<>>,
              proof |-> ServerVerifier(request, found.user)]

\* ServerFinalChecks looking the user up before it reads the GS2 flag
ServerFinalChecksUserFirst(request, users) ==
    LET username == request.clientFirstMessage.user
        found == RepoFind(users, username)
        failed(code) == [ok |-> FALSE, errorCode |-> code, proof |-> <<>>]
    IN  IF Truthy(request.clientFirstMessage.mext)
        THEN failed(SCRAM_EXTENSIONS_NOT_SUPPORTED)
        ELSE IF ~found.ok THEN failed(found.errorCode)
        ELSE IF request.clientFirstMessage.gs2CbindFlag # Str(<<"n">>)
        THEN failed(SCRAM_CHANNEL_BINDING_NOT_SUPPORTED)
        ELSE IF ~ClientProofVerifies(request, users)
        THEN failed(SCRAM_INVALID_PROOF)
        ELSE [ok |-> TRUE, errorCode |-> <<>>,
              proof |-> ServerVerifier(request, found.user)]

\* ServerFinalChecks reading the GS2 flag before it looks for an extension
ServerFinalChecksFlagFirst(request, users) ==
    LET username == request.clientFirstMessage.user
        found == RepoFind(users, username)
        failed(code) == [ok |-> FALSE, errorCode |-> code, proof |-> <<>>]
    IN  IF request.clientFirstMessage.gs2CbindFlag # Str(<<"n">>)
        THEN failed(SCRAM_CHANNEL_BINDING_NOT_SUPPORTED)
        ELSE IF Truthy(request.clientFirstMessage.mext)
        THEN failed(SCRAM_EXTENSIONS_NOT_SUPPORTED)
        ELSE IF ~found.ok THEN failed(found.errorCode)
        ELSE IF ~ClientProofVerifies(request, users)
        THEN failed(SCRAM_INVALID_PROOF)
        ELSE [ok |-> TRUE, errorCode |-> <<>>,
              proof |-> ServerVerifier(request, found.user)]

\* ServerFinalChecks issuing the verifier without verifying the proof
ServerFinalChecksProofUnverified(request, users) ==
    LET username == request.clientFirstMessage.user
        found == RepoFind(users, username)
        failed(code) == [ok |-> FALSE, errorCode |-> code, proof |-> <<>>]
    IN  IF Truthy(request.clientFirstMessage.mext)
        THEN failed(SCRAM_EXTENSIONS_NOT_SUPPORTED)
        ELSE IF request.clientFirstMessage.gs2CbindFlag # Str(<<"n">>)
        THEN failed(SCRAM_CHANNEL_BINDING_NOT_SUPPORTED)
        ELSE IF ~found.ok THEN failed(found.errorCode)
        ELSE [ok |-> TRUE, errorCode |-> <<>>,
              proof |-> ServerVerifier(request, found.user)]

\* the try block of createServerFinalMessage: [ok, errorCode, proof], not ok
\* when something is thrown: a ScramError with errorCode, or the TypeError of
\* user.getServerKey(), which has no errorCode
ServerFinalChecks(request, users) ==
    LET username == request.clientFirstMessage.user
        found == RepoFind(users, username)
        failed(code) == [ok |-> FALSE, errorCode |-> code, proof |-> <<>>]
    IN  IF Truthy(request.clientFirstMessage.mext)
        THEN failed(SCRAM_EXTENSIONS_NOT_SUPPORTED)
        ELSE IF request.clientFirstMessage.gs2CbindFlag # Str(<<"n">>)
        THEN failed(SCRAM_CHANNEL_BINDING_NOT_SUPPORTED)
        ELSE IF ~found.ok THEN failed(found.errorCode)
        ELSE IF ~IsScramUser(found.user) THEN failed(UndefinedText)
        ELSE IF ~ClientProofVerifies(request, users)
        THEN failed(SCRAM_INVALID_PROOF)
        ELSE [ok |-> TRUE, errorCode |-> <<>>,
              proof |-> ServerVerifier(request, found.user)]

\* ServerFinalErrorText that never conceals the code
ServerFinalErrorTextUnconcealed(concealErrors, errorCode) ==
    Str(<<"e", "=">>) \o errorCode

\* ServerFinalErrorText writing the message of the error, which a ScramError
\* leaves empty, in place of its code
ServerFinalErrorTextOfMessage(concealErrors, errorCode) ==
    IF concealErrors
    THEN Str(<<"e", "=">>) \o SCRAM_OTHER_ERROR
    ELSE Str(<<"e", "=">>)

\* the text of the catch block of createServerFinalMessage
ServerFinalErrorText(concealErrors, errorCode) ==
    IF concealErrors
    THEN Str(<<"e", "=">>) \o SCRAM_OTHER_ERROR
    ELSE Str(<<"e", "=">>) \o errorCode

\* ServerFinalText of a server whose concealment also withholds the verifier
ServerFinalTextConcealingVerifier(request, users) ==
    LET checks == ServerFinalChecks(request, users)
    IN  IF checks.ok /\ ~request.concealErrors
        THEN Str(<<"v", "=">>) \o checks.proof
        ELSE ServerFinalErrorText(request.concealErrors,
                 IF checks.ok THEN SCRAM_OTHER_ERROR ELSE checks.errorCode)

\* the text createServerFinalMessage builds
ServerFinalText(request, users) ==
    LET checks == ServerFinalChecks(request, users)
    IN  IF checks.ok THEN Str(<<"v", "=">>) \o checks.proof
        ELSE ServerFinalErrorText(request.concealErrors, checks.errorCode)

\* createServerFinalMessage folding a missing client-final into an error
\* message in place of throwing
CreateServerFinalMessageFoldingMissing(request, users) ==
    IF /\ request.clientFirstMessage # None
       /\ request.serverFirstMessage # None
    THEN IF request.clientFinalMessage # None
         THEN Construct(ScramMessageServerFinal(ServerFinalText(request, users)))
         ELSE Construct(ScramMessageServerFinal(
                  ServerFinalErrorText(request.concealErrors, SCRAM_OTHER_ERROR)))
    ELSE Throw("Unable to create server-final-message, missing client-first-message, server-first-message, or client-final-message.")

\* createServerFinalMessage()
CreateServerFinalMessage(request, users) ==
    IF /\ request.clientFirstMessage # None
       /\ request.serverFirstMessage # None
       /\ request.clientFinalMessage # None
    THEN Construct(ScramMessageServerFinal(ServerFinalText(request, users)))
    ELSE Throw("Unable to create server-final-message, missing client-first-message, server-first-message, or client-final-message.")

(***************************************************************************)
(* The environment: the users registered, the inputs callers give, and the *)
(* messages a setter can be handed.                                        *)
(***************************************************************************)
\* calls of the first exchange that depart from the protocol order: a message
\* that is not the one the peer holds handed to a setter, a slot assigned
\* again, a call that throws for an unset slot.  Later exchanges depart from it only by
\* replaying recorded messages.
MaxDeviations == 1
\* exchanges run one after the other
MaxExchanges == 2

\* the iteration count the server is constructed with (0x1000 in the tests)
DefaultIterations == 4096

\* the default of the client option maxIterations (0xffffff)
DEFAULT_MAX_ITERATIONS == 16777215

\* (username, password, salt, iterations) of the users registered
Registrations ==
    {<<Str(<<"u">>), Str(<<"q", "~">>), PepperedSalt(Str(<<"u">>)), DefaultIterations>>,
     <<Str(<<"w">>), Str(<<"p">>), <<LetterByte("Q")>>, 2>>}

\* registerUser of the tests
RegisterUser(reg) ==
    MockScramUser(reg[1], reg[3], reg[4],
                  AlgoGetSaltedPassword(reg[2], reg[3], reg[4]).value)

\* the repository after registration
TestRepo ==
    [username \in {saslPrep(reg[1]).value : reg \in Registrations} |->
        RegisterUser(CHOOSE reg \in Registrations : saslPrep(reg[1]).value = username)]

\* the user names callers authenticate as
Usernames == {Str(<<"u">>), Str(<<"w">>), Str(<<"x">>)}

\* the passwords callers type
Passwords == {Str(<<"p">>), Str(<<"q", "~">>), Str(<<"q">>)}

\* a byte that no digest, random value or letter holds, to alter another with
FlipByte == {<< <<"flip">>, 1 >>}

\* a client-first text with its GS2 flag replaced and an extension put in
\* front of the bare message
RewriteClientFirst(message, flag, ext) ==
    flag \o Str(<<",", ",">>) \o ext \o message.messageBare

ForgedClientFirstTexts ==
    IF client.clientFirstMessage = None THEN {}
    ELSE {RewriteClientFirst(client.clientFirstMessage, flag, ext) :
            flag \in {Str(<<"n">>), Str(<<"y">>), Str(<<"p", "=", "t">>)},
            ext \in {<<>>, Str(<<"m", "=", "x", ",">>), Str(<<"m", "=", ",">>)}}

\* a server-first text with its iteration count replaced
RewriteServerFirst(message, iterations) ==
    Str(<<"r", "=">>) \o message.nonce \o Str(<<",", "s", "=">>)
        \o Base64FromUint8Array(message.salt)
        \o Str(<<",", "i", "=">>) \o NumberToString(Num(iterations))

\* the iteration counts written into a server-first: the client's maximum,
\* one more, and none
ForgedIterations == {DEFAULT_MAX_ITERATIONS, DEFAULT_MAX_ITERATIONS + 1, 0}

ForgedServerFirstTexts ==
    IF server.serverFirstMessage = None THEN {}
    ELSE {RewriteServerFirst(server.serverFirstMessage, iterations) :
            iterations \in ForgedIterations}

\* proofs that differ from the proof sent: its first byte altered, a byte
\* added at its end, its last character replaced by one outside the Base64
\* alphabet
AlteredProofs(proof) ==
    LET bytes == Base64ToUint8Array(proof)
    IN  {Base64FromUint8Array([bytes EXCEPT ![1] = XorByte(@, FlipByte)]),
         Base64FromUint8Array(bytes \o <<FlipByte>>),
         [proof EXCEPT ![Len(proof)] = Chr("*")]}

ForgedClientFinalTexts ==
    IF client.clientFinalMessage = None THEN {}
    ELSE {client.clientFinalMessage.messageWithoutProof \o Str(<<",", "p", "=">>) \o proof :
            proof \in AlteredProofs(client.clientFinalMessage.clientProof)}

ForgedServerFinalTexts ==
    IF server.serverFinalMessage = None
       \/ server.serverFinalMessage.verifier = FalseValue
    THEN {}
    ELSE {Str(<<"v", "=">>) \o proof :
            proof \in AlteredProofs(server.serverFinalMessage.verifier)}

\* the deviations the exchange under way may make
Budget == IF exchanges = 1 THEN MaxDeviations ELSE 0

\* the objects of the constructions that did not throw
BuiltOf(constructions) == {built.msg : built \in {b \in constructions : b.ok}}

\* the messages a caller can hand to the setter of a slot: the message the
\* other exchange object holds, one recorded from an earlier exchange, or
\* one rewritten on the way
Offered(slot) ==
    (({client[slot], server[slot]} \ {None}) \cup recorded[slot])
    \cup IF deviations >= Budget THEN {} ELSE CASE slot = "clientFirstMessage" ->
                BuiltOf({ScramMessageClientFirst(t) : t \in ForgedClientFirstTexts})
           [] slot = "serverFirstMessage" ->
                BuiltOf({ScramMessageServerFirst(t) : t \in ForgedServerFirstTexts})
           [] slot = "clientFinalMessage" ->
                BuiltOf({ScramMessageClientFinal(t) : t \in ForgedClientFinalTexts})
           [] slot = "serverFinalMessage" ->
                BuiltOf({ScramMessageServerFinal(t) : t \in ForgedServerFinalTexts})

(***************************************************************************)
(* The actions: one per method of the exchange objects.  The random source *)
(* never repeats: its n-th buffer is RandomValues(n, .), and `drawn`       *)
(* counts the buffers drawn so far.                                        *)
(***************************************************************************)
\* what the last call was and how it ended
Called(side, op, outcome) ==
    [side |-> side, op |-> op, threw |-> outcome.threw, error |-> outcome.error,
     value |-> outcome.value]

NoCall == Called("", "", Return(None))

\* no salted password derived yet
NoBytes == <<>>

\* the exchange object after a call that assigns `slot` its result unless it throws
Assigned(request, slot, outcome) ==
    IF outcome.threw THEN request ELSE [request EXCEPT ![slot] = outcome.value]

\* the messages of the Errors thrown for an unset slot
PreconditionErrors ==
    {"Unable to create server-first-message, missing client-first-message.",
     "Unable to create salted password, missing client-first-message or server-first-message.",
     "Unable to create client-final-message, missing client-first-message or server-first-message.",
     "Unable to create server-final-message, missing client-first-message, server-first-message, or client-final-message.",
     "Unable to verify client-final-message, missing client-first-message, server-first-message, or client-final-message.",
     "Unable to verify server-final-message, missing client-first-message, server-first-message, client-final-message or server-final-message."}

\* 0 for a call made in protocol order, 1 for a deviation: a call out of
\* order, or one that throws for an unset slot.  A call made in order that
\* throws for what the peer sent is no deviation of the caller.
Cost(inOrder, outcome) ==
    IF inOrder /\ ~(outcome.threw /\ outcome.error \in PreconditionErrors) THEN 0 ELSE 1

Init ==
    /\ client = ScramRequestClient(DEFAULT_MAX_ITERATIONS)
    /\ server \in {ScramRequestServer(DefaultIterations, c) : c \in BOOLEAN}
    /\ repo = TestRepo
    /\ callerSaltedPassword = NoBytes
    /\ ret = NoCall
    /\ recorded = [slot \in Slots |-> {}]
    /\ exchanges = 1
    /\ drawn = 0
    /\ deviations = 0
    /\ pairs = <<>>
    /\ parsing = None
    /\ salting = None
    /\ running = None

\* client.createClientFirstMessage(user)
ClientCreateClientFirstMessage(user) ==
    LET outcome == CreateClientFirstMessage(client, user, drawn + 1)
        cost == Cost(client.clientFirstMessage = None, outcome)
    IN  /\ deviations + cost <= Budget
        /\ client' = Assigned(client, "clientFirstMessage", outcome)
        /\ ret' = Called("client", "createClientFirstMessage", outcome)
        /\ drawn' = drawn + 1
        /\ deviations' = deviations + cost
        /\ UNCHANGED <<pairs, parsing, salting, running, server, repo, callerSaltedPassword, recorded, exchanges>>

\* saltedPassword = await client.getSaltedPassword(password)
ClientGetSaltedPasswordCall(password) ==
    LET outcome == ClientGetSaltedPassword(client, password)
        cost == Cost(callerSaltedPassword = NoBytes, outcome)
    IN  /\ deviations + cost <= Budget
        /\ callerSaltedPassword' =
              IF outcome.threw THEN callerSaltedPassword ELSE outcome.value
        /\ ret' = Called("client", "getSaltedPassword", outcome)
        /\ deviations' = deviations + cost
        /\ UNCHANGED <<pairs, parsing, salting, running, client, server, repo, recorded, exchanges, drawn>>

\* saltedPassword = await algo.getSaltedPassword(password, salt, iterations)
\* with the salt and the iteration count of the user's registration, as in
\* the tests
AlgoGetSaltedPasswordCall(reg, password) ==
    LET derived == AlgoGetSaltedPassword(password, reg[3], reg[4])
        outcome == IF derived.ok THEN Return(derived.value) ELSE Throw("OperationError")
        cost == Cost(callerSaltedPassword = NoBytes, outcome)
    IN  /\ client.clientFirstMessage # None
        /\ client.clientFirstMessage.user = saslPrep(reg[1]).value
        /\ deviations + cost <= Budget
        /\ callerSaltedPassword' =
              IF outcome.threw THEN callerSaltedPassword ELSE outcome.value
        /\ ret' = Called("algo", "getSaltedPassword", outcome)
        /\ deviations' = deviations + cost
        /\ UNCHANGED <<pairs, parsing, salting, running, client, server, repo, recorded, exchanges, drawn>>

\* client.createClientFinalMessage(saltedPassword)
ClientCreateClientFinalMessage ==
    LET outcome == CreateClientFinalMessage(client, callerSaltedPassword)
        cost == Cost(client.clientFinalMessage = None, outcome)
    IN  /\ callerSaltedPassword # NoBytes
        /\ deviations + cost <= Budget
        /\ client' = Assigned(client, "clientFinalMessage", outcome)
        /\ ret' = Called("client", "createClientFinalMessage", outcome)
        /\ deviations' = deviations + cost
        /\ UNCHANGED <<pairs, parsing, salting, running, server, repo, callerSaltedPassword, recorded, exchanges, drawn>>

\* client.verifyServerFinalMessage(saltedPassword) consuming the server-final
\* it verified
ClientVerifyServerFinalMessageConsuming ==
    LET outcome == VerifyServerFinalMessage(client, callerSaltedPassword)
        cost == Cost(TRUE, outcome)
    IN  /\ callerSaltedPassword # NoBytes
        /\ deviations + cost <= Budget
        /\ client' = IF outcome.threw THEN client
                     ELSE [client EXCEPT !.serverFinalMessage = None]
        /\ ret' = Called("client", "verifyServerFinalMessage", outcome)
        /\ deviations' = deviations + cost
        /\ UNCHANGED <<pairs, parsing, salting, running, server, repo, callerSaltedPassword, recorded, exchanges,
                       drawn>>

\* client.verifyServerFinalMessage(saltedPassword)
ClientVerifyServerFinalMessage ==
    LET outcome == VerifyServerFinalMessage(client, callerSaltedPassword)
        cost == Cost(TRUE, outcome)
    IN  /\ callerSaltedPassword # NoBytes
        /\ deviations + cost <= Budget
        /\ ret' = Called("client", "verifyServerFinalMessage", outcome)
        /\ deviations' = deviations + cost
        /\ UNCHANGED <<pairs, parsing, salting, running, client, server, repo, callerSaltedPassword, recorded, exchanges,
                       drawn>>

\* server.createServerFirstMessage()
ServerCreateServerFirstMessage ==
    LET outcome == CreateServerFirstMessage(server, repo, drawn + 1)
        cost == Cost(server.serverFirstMessage = None, outcome)
    IN  /\ deviations + cost <= Budget
        /\ server' = Assigned(server, "serverFirstMessage", outcome)
        /\ ret' = Called("server", "createServerFirstMessage", outcome)
        /\ drawn' = IF server.clientFirstMessage # None THEN drawn + 1 ELSE drawn
        /\ deviations' = deviations + cost
        /\ UNCHANGED <<pairs, parsing, salting, running, client, repo, callerSaltedPassword, recorded, exchanges>>

\* the server-final the server holds carries an error: the exchange failed
ServerFailed ==
    /\ server.serverFinalMessage # None
    /\ server.serverFinalMessage.error # FalseValue

\* server.createServerFinalMessage(); asking again after a failure is the
\* retry of a caller, no deviation
ServerCreateServerFinalMessage ==
    LET outcome == CreateServerFinalMessage(server, repo)
        cost == Cost(server.serverFinalMessage = None \/ ServerFailed, outcome)
    IN  /\ deviations + cost <= Budget
        /\ server' = Assigned(server, "serverFinalMessage", outcome)
        /\ ret' = Called("server", "createServerFinalMessage", outcome)
        /\ deviations' = deviations + cost
        /\ UNCHANGED <<pairs, parsing, salting, running, client, repo, callerSaltedPassword, recorded, exchanges, drawn>>

\* server.verifyClientFinalMessage()
ServerVerifyClientFinalMessage ==
    LET outcome == VerifyClientFinalMessage(server, repo)
        cost == Cost(TRUE, outcome)
    IN  /\ deviations + cost <= Budget
        /\ ret' = Called("server", "verifyClientFinalMessage", outcome)
        /\ deviations' = deviations + cost
        /\ UNCHANGED <<pairs, parsing, salting, running, client, server, repo, callerSaltedPassword, recorded, exchanges,
                       drawn>>

\* the side a message is sent to
Receiver(slot) ==
    IF slot \in {"clientFirstMessage", "clientFinalMessage"} THEN "server" ELSE "client"

Peer(side) == IF side = "client" THEN server ELSE client

Self(side) == IF side = "client" THEN client ELSE server

\* the message is the one the peer holds, or one recorded from the earlier
\* exchange, and goes to an empty slot of the side it is sent to, or is
\* the client-final handed over again by a caller that retries after a
\* failure
InOrder(side, slot, message) ==
    /\ side = Receiver(slot)
    /\ Self(side)[slot] = None \/ (ServerFailed /\ slot = "clientFinalMessage")
    /\ message = Peer(side)[slot] \/ message \in recorded[slot]

\* the setter of `slot` of ScramRequest, called on the client or the server
SetMessage(side, slot, message) ==
    LET cost == Cost(InOrder(side, slot, message), Return(message))
    IN  /\ deviations + cost <= Budget
        /\ IF side = "client"
           THEN client' = [client EXCEPT ![slot] = message] /\ UNCHANGED server
           ELSE server' = [server EXCEPT ![slot] = message] /\ UNCHANGED client
        /\ ret' = Called(side, slot, Return(message))
        /\ deviations' = deviations + cost
        /\ UNCHANGED <<pairs, parsing, salting, running, repo, callerSaltedPassword, recorded, exchanges, drawn>>

\* setClientFirstMessage(message)
SetClientFirstMessage(side) ==
    \E message \in Offered("clientFirstMessage") :
        SetMessage(side, "clientFirstMessage", message)

\* setServerFirstMessage(message)
SetServerFirstMessage(side) ==
    \E message \in Offered("serverFirstMessage") :
        SetMessage(side, "serverFirstMessage", message)

\* setClientFinalMessage(message)
SetClientFinalMessage(side) ==
    \E message \in Offered("clientFinalMessage") :
        SetMessage(side, "clientFinalMessage", message)

\* setServerFinalMessage(message)
SetServerFinalMessage(side) ==
    \E message \in Offered("serverFinalMessage") :
        SetMessage(side, "serverFinalMessage", message)

\* the exchange has ended with both sides authenticated
Authenticated ==
    /\ server.serverFinalMessage # None
    /\ server.serverFinalMessage.verifier # FalseValue
    /\ client.serverFinalMessage = server.serverFinalMessage

\* both exchange objects are discarded after a successful exchange and new
\* ones constructed with the same options; the messages the client sent in
\* the old exchange stay known to whoever watched the transport
NewExchange ==
    /\ exchanges < MaxExchanges
    /\ Authenticated
    /\ deviations = 0
    /\ recorded' = [slot \in Slots |->
                        IF Receiver(slot) = "server"
                        THEN recorded[slot] \cup {server[slot]}
                        ELSE recorded[slot]]
    /\ client' = ScramRequestClient(client.maxIterations)
    /\ server' = ScramRequestServer(server.iterations, server.concealErrors)
    /\ callerSaltedPassword' = NoBytes
    /\ ret' = NoCall
    /\ exchanges' = exchanges + 1
    /\ UNCHANGED <<pairs, parsing, salting, running, repo, drawn, deviations>>

Next ==
    \/ \E user \in Usernames : ClientCreateClientFirstMessage(user)
    \/ \E password \in Passwords : ClientGetSaltedPasswordCall(password)
    \/ \E reg \in Registrations, password \in Passwords :
          AlgoGetSaltedPasswordCall(reg, password)
    \/ ClientCreateClientFinalMessage
    \/ ClientVerifyServerFinalMessage
    \/ ServerCreateServerFirstMessage
    \/ ServerCreateServerFinalMessage
    \/ ServerVerifyClientFinalMessage
    \/ \E side \in {"client", "server"} : SetClientFirstMessage(side)
    \/ \E side \in {"client", "server"} : SetServerFirstMessage(side)
    \/ \E side \in {"client", "server"} : SetClientFinalMessage(side)
    \/ \E side \in {"client", "server"} : SetServerFinalMessage(side)
    \/ NewExchange

Spec == Init /\ [][Next]_vars

(***************************************************************************)
(* What the exchange objects hold, read off the slots.                     *)
(***************************************************************************)
\* the salted password stored for a registration
RegisteredSaltedPassword(reg) == AlgoGetSaltedPassword(reg[2], reg[3], reg[4]).value

\* the client holds the client-first that createClientFirstMessage(user) built
ClientFirstSent(user) ==
    /\ client.clientFirstMessage # None
    /\ \E k \in 1..drawn :
          client.clientFirstMessage.message = ClientFirstText(client, user, k)

\* the server holds the server-first that createServerFirstMessage built
\* from the client-first it holds
ServerFirstIssued ==
    /\ server.clientFirstMessage # None
    /\ server.serverFirstMessage # None
    /\ \E k \in 1..drawn :
          server.serverFirstMessage.message = ServerFirstText(server, repo, k)

\* the client holds the client-final that createClientFinalMessage built
\* from the salted password
ClientFinalSent(saltedPassword) ==
    /\ client.clientFirstMessage # None
    /\ client.serverFirstMessage # None
    /\ client.clientFinalMessage # None
    /\ client.clientFinalMessage.message = ClientFinalText(client, saltedPassword)

\* both sides hold the same message in the slot
Handed(slot) == client[slot] # None /\ server[slot] = client[slot]

\* the exchange was run in protocol order up to the client-final, by the
\* user and with the salted password
ExchangeWith(user, saltedPassword) ==
    /\ ClientFirstSent(user)
    /\ Handed("clientFirstMessage")
    /\ ServerFirstIssued
    /\ Handed("serverFirstMessage")
    /\ ClientFinalSent(saltedPassword)
    /\ Handed("clientFinalMessage")

\* the server holds the server-final that createServerFinalMessage built,
\* and the client was handed it
ServerFinalHanded ==
    /\ server.serverFinalMessage # None
    /\ server.serverFinalMessage.message = ServerFinalText(server, repo)
    /\ Handed("serverFinalMessage")

\* the last call was `op` on `side`, and it returned
Returned(side, op) == ret.side = side /\ ret.op = op /\ ~ret.threw

\* the last call was `op` on `side`
LastCall(side, op) == ret.side = side /\ ret.op = op

(***************************************************************************)
(* C1.  For every registered user, an exchange run in protocol order with  *)
(* the salted password of the registration ends with                       *)
(* server.verifyClientFinalMessage() returning true and                    *)
(* client.verifyServerFinalMessage(saltedPassword) returning true, and the *)
(* server-final that createServerFinalMessage returns carries a verifier   *)
(* and no error.                                                           *)
(***************************************************************************)
C1_MatchingCredentialsAuthenticate ==
    \A reg \in Registrations :
        ExchangeWith(reg[1], RegisteredSaltedPassword(reg)) =>
            /\ LastCall("server", "verifyClientFinalMessage") =>
                  ~ret.threw /\ ret.value = TRUE
            /\ LastCall("server", "createServerFinalMessage") =>
                  /\ ~ret.threw
                  /\ ret.value.verifier # FalseValue
                  /\ ret.value.error = FalseValue
            /\ (/\ LastCall("client", "verifyServerFinalMessage")
                /\ ServerFinalHanded
                /\ callerSaltedPassword = RegisteredSaltedPassword(reg)) =>
                  ~ret.threw /\ ret.value = TRUE

\* C1: both verifications have returned true at the end of such an exchange
C1_Witness ==
    \E reg \in Registrations :
        /\ ExchangeWith(reg[1], RegisteredSaltedPassword(reg))
        /\ ServerFinalHanded
        /\ server.serverFinalMessage.verifier # FalseValue
        /\ callerSaltedPassword = RegisteredSaltedPassword(reg)
        /\ Returned("client", "verifyServerFinalMessage")
        /\ ret.value = TRUE
        /\ VerifyClientFinalMessage(server, repo) = Return(TRUE)

(***************************************************************************)
(* C2.  When the client derives its client-final from the salted password  *)
(* of a password other than the registered one (same user, salt and        *)
(* iterations), createServerFinalMessage returns a server-final with the   *)
(* error "invalid-proof" and no verifier, server.verifyClientFinalMessage()*)
(* returns false and client.verifyServerFinalMessage(wrong salted          *)
(* password) returns false.                                                *)
(***************************************************************************)
\* the salted passwords a caller derives from a password for a registration:
\* by ScramAlgo.getSaltedPassword, or by client.getSaltedPassword from the
\* salt and the iteration count of the server-first
SaltedPasswordsOf(password, reg) ==
    {AlgoGetSaltedPassword(password, reg[3], reg[4]).value,
     pbkdf2(Utf8(password), reg[3], reg[4]).value}

\* what the three calls return for a client-final that does not prove the
\* password, `token` being the error of the server-final
RejectedAs(token, saltedPassword) ==
    /\ LastCall("server", "createServerFinalMessage") =>
          /\ ~ret.threw
          /\ ret.value.error = token
          /\ ret.value.verifier = FalseValue
    /\ LastCall("server", "verifyClientFinalMessage") =>
          ~ret.threw /\ ret.value = FALSE
    /\ (/\ LastCall("client", "verifyServerFinalMessage")
        /\ ServerFinalHanded
        /\ callerSaltedPassword = saltedPassword) =>
          ~ret.threw /\ ret.value = FALSE

\* C2 as stated: with concealment off, every password that is not the
\* registered string is rejected with "invalid-proof"
C2_AnyOtherPasswordRejected ==
    \A reg \in Registrations, password \in Passwords :
        \A saltedPassword \in SaltedPasswordsOf(password, reg) :
            (/\ password # reg[2]
             /\ ~server.concealErrors
             /\ ExchangeWith(reg[1], saltedPassword)) =>
                RejectedAs(SCRAM_INVALID_PROOF, saltedPassword)

\* C2 amended: every password whose SASLprep form differs from that of the
\* registered password is rejected, with "invalid-proof" when concealment
\* is off and "other-error" when it is on
C2_OtherPreparedPasswordRejected ==
    \A reg \in Registrations, password \in Passwords :
        \A saltedPassword \in SaltedPasswordsOf(password, reg) :
            (/\ saslPrep(password).value # saslPrep(reg[2]).value
             /\ ExchangeWith(reg[1], saltedPassword)) =>
                RejectedAs(IF server.concealErrors THEN SCRAM_OTHER_ERROR
                           ELSE SCRAM_INVALID_PROOF, saltedPassword)

\* C2: a wrong password has been refused by the server and by the client
C2_Witness ==
    \E reg \in Registrations, password \in Passwords :
        \E saltedPassword \in SaltedPasswordsOf(password, reg) :
            /\ saslPrep(password).value # saslPrep(reg[2]).value
            /\ ExchangeWith(reg[1], saltedPassword)
            /\ ServerFinalHanded
            /\ server.serverFinalMessage.error = SCRAM_INVALID_PROOF
            /\ callerSaltedPassword = saltedPassword
            /\ Returned("client", "verifyServerFinalMessage")
            /\ ret.value = FALSE

(***************************************************************************)
(* C3.  For a registered user and an otherwise valid exchange, a           *)
(* client-final whose proof differs from the proof the client sent makes   *)
(* server.verifyClientFinalMessage() return false.                         *)
(***************************************************************************)
\* the exchange is valid up to the client-final the client built, and the
\* server holds that client-final with another proof in it
ProofReplaced(reg) ==
    /\ ClientFirstSent(reg[1])
    /\ Handed("clientFirstMessage")
    /\ ServerFirstIssued
    /\ Handed("serverFirstMessage")
    /\ ClientFinalSent(RegisteredSaltedPassword(reg))
    /\ server.clientFinalMessage # None
    /\ server.clientFinalMessage.messageWithoutProof
          = client.clientFinalMessage.messageWithoutProof
    /\ server.clientFinalMessage.clientProof # client.clientFinalMessage.clientProof

\* C3: verifyClientFinalMessage returns false for every client-final whose
\* proof differs from the proof the client sent
C3_AnyChangedProofRejected ==
    \A reg \in Registrations :
        (ProofReplaced(reg) /\ LastCall("server", "verifyClientFinalMessage")) =>
            ~ret.threw /\ ret.value = FALSE

(***************************************************************************)
(* C4.  For an otherwise valid exchange, a server-final whose verifier     *)
(* differs from the verifier the server sent makes                         *)
(* client.verifyServerFinalMessage(saltedPassword) return false.           *)
(***************************************************************************)
\* the exchange is valid up to the server-final the server built, and the
\* client holds a server-final with another verifier in it
VerifierReplaced(reg) ==
    /\ ExchangeWith(reg[1], RegisteredSaltedPassword(reg))
    /\ server.serverFinalMessage # None
    /\ server.serverFinalMessage.message = ServerFinalText(server, repo)
    /\ client.serverFinalMessage # None
    /\ client.serverFinalMessage.verifier # server.serverFinalMessage.verifier
    /\ callerSaltedPassword = RegisteredSaltedPassword(reg)

\* C4: verifyServerFinalMessage returns false for every server-final whose
\* verifier differs from the verifier the server sent
C4_AnyChangedVerifierRejected ==
    \A reg \in Registrations :
        (VerifierReplaced(reg) /\ LastCall("client", "verifyServerFinalMessage")) =>
            ~ret.threw /\ ret.value = FALSE

\* C4: the client has refused a server-final that carries an altered verifier
C4_Witness ==
    \E reg \in Registrations :
        /\ VerifierReplaced(reg)
        /\ client.serverFinalMessage.verifier # FalseValue
        /\ Returned("client", "verifyServerFinalMessage")
        /\ ret.value = FALSE

(***************************************************************************)
(* C5.  A client-final produced in one exchange is never accepted in       *)
(* another server exchange: when the server has issued its own server      *)
(* nonce in createServerFirstMessage and holds a client-first and a        *)
(* client-final recorded from an earlier exchange,                         *)
(* verifyClientFinalMessage() returns false and createServerFinalMessage   *)
(* yields an error and no verifier.                                        *)
(***************************************************************************)
\* the server of a later exchange holds recorded client messages around a
\* server-first of its own, whose nonce no recorded client-final carries
Replayed ==
    /\ ServerFirstIssued
    /\ server.clientFirstMessage \in recorded["clientFirstMessage"]
    /\ server.clientFinalMessage # None
    /\ server.clientFinalMessage \in recorded["clientFinalMessage"]
    /\ \A message \in recorded["clientFinalMessage"] :
          message.nonce # server.serverFirstMessage.nonce

\* C5: a server that issued a fresh nonce refuses the client-first and
\* client-final recorded from an earlier exchange: verifyClientFinalMessage
\* returns false and the server-final carries an error, not a verifier
C5_ReplayedClientFinalRejected ==
    Replayed =>
        /\ LastCall("server", "verifyClientFinalMessage") =>
              ~ret.threw /\ ret.value = FALSE
        /\ LastCall("server", "createServerFinalMessage") =>
              /\ ~ret.threw
              /\ ret.value.error # FalseValue
              /\ ret.value.verifier = FalseValue

\* C5: the server has refused the recorded client-final of the same user
C5_Witness ==
    /\ Replayed
    /\ server.clientFirstMessage.user \in DOMAIN repo
    /\ Returned("server", "createServerFinalMessage")
    /\ ret.value.error # FalseValue
    /\ VerifyClientFinalMessage(server, repo) = Return(FALSE)

\* the three slots createServerFinalMessage needs are set on the server
ServerReady ==
    /\ server.clientFirstMessage # None
    /\ server.serverFirstMessage # None
    /\ server.clientFinalMessage # None

(***************************************************************************)
(* C6.  When the user of the client-first is not in the repository, no     *)
(* extension is requested and the GS2 flag is n, createServerFinalMessage  *)
(* returns a server-final whose error is "unknown-user" with concealment   *)
(* off and "other-error" with concealment on, and                          *)
(* verifyClientFinalMessage() returns false without throwing.              *)
(***************************************************************************)
UnknownUser ==
    /\ ServerReady
    /\ ~RepoHas(repo, server.clientFirstMessage.user)
    /\ server.clientFirstMessage.mext = Undefined
    /\ server.clientFirstMessage.gs2CbindFlag = Str(<<"n">>)

C7_ConcealedErrorIsOtherError ==
    (/\ server.concealErrors
     /\ Returned("server", "createServerFinalMessage")
     /\ ret.value.error # FalseValue) =>
        /\ ret.value.error = SCRAM_OTHER_ERROR
        /\ ret.value.verifier = FalseValue
        /\ server.serverFinalMessage = ret.value

\* C7: a failed channel-binding check has gone out as "other-error"
C7_Witness ==
    /\ server.concealErrors
    /\ Returned("server", "createServerFinalMessage")
    /\ ret.value.error = SCRAM_OTHER_ERROR
    /\ ServerFinalChecks(server, repo).errorCode = SCRAM_CHANNEL_BINDING_NOT_SUPPORTED

(***************************************************************************)
(* C8.  With concealment off, whenever the client-first held by the server *)
(* contains an m parameter, createServerFinalMessage returns a             *)
(* server-final whose error is "extensions-not-supported", whatever the    *)
(* value of the parameter, the GS2 flag, the user and the proof.           *)
(***************************************************************************)
C8_AnyExtensionRejected ==
    (/\ ~server.concealErrors
     /\ ServerReady
     /\ server.clientFirstMessage.mext # Undefined
     /\ LastCall("server", "createServerFinalMessage")) =>
        ~ret.threw /\ ret.value.error = SCRAM_EXTENSIONS_NOT_SUPPORTED

(***************************************************************************)
(* C9.  With concealment off, whenever the GS2 flag of the client-first    *)
(* held by the server is not exactly "n", createServerFinalMessage returns *)
(* a server-final whose error is "channel-binding-not-supported",          *)
(* whatever the user and the proof.                                        *)
(***************************************************************************)
\* C9 as stated: any flag other than "n" is rejected with
\* "channel-binding-not-supported"
C9_AnyOtherFlagRejected ==
    (/\ ~server.concealErrors
     /\ ServerReady
     /\ server.clientFirstMessage.gs2CbindFlag # Str(<<"n">>)
     /\ LastCall("server", "createServerFinalMessage")) =>
        ~ret.threw /\ ret.value.error = SCRAM_CHANNEL_BINDING_NOT_SUPPORTED

\* C9 amended: a flag other than "n" is rejected with
\* "channel-binding-not-supported" when the m parameter of the client-first
\* is absent or empty
C9_OtherFlagWithoutExtensionRejected ==
    (/\ ~server.concealErrors
     /\ ServerReady
     /\ server.clientFirstMessage.gs2CbindFlag # Str(<<"n">>)
     /\ ~Truthy(server.clientFirstMessage.mext)
     /\ LastCall("server", "createServerFinalMessage")) =>
        /\ ~ret.threw
        /\ ret.value.error = SCRAM_CHANNEL_BINDING_NOT_SUPPORTED
        /\ ret.value.verifier = FalseValue

\* C9: the flag of an unknown user has been refused before the user was looked up
C9_Witness ==
    /\ ~server.concealErrors
    /\ ServerReady
    /\ server.clientFirstMessage.gs2CbindFlag # Str(<<"n">>)
    /\ ~Truthy(server.clientFirstMessage.mext)
    /\ ~RepoHas(repo, server.clientFirstMessage.user)
    /\ Returned("server", "createServerFinalMessage")
    /\ ret.value.error = SCRAM_CHANNEL_BINDING_NOT_SUPPORTED

(***************************************************************************)
(* C10.  createServerFinalMessage throws exactly when one of the three     *)
(* predecessor slots of the server is unset; otherwise it returns, and     *)
(* stores, a server-final that carries a verifier or an error.             *)
(***************************************************************************)
C10_ServerFinalNeverThrowsWhenReady ==
    LastCall("server", "createServerFinalMessage") =>
        /\ ret.threw <=> ~ServerReady
        /\ ~ret.threw =>
              /\ server.serverFinalMessage = ret.value
              /\ ret.value.verifier # FalseValue \/ ret.value.error # FalseValue

\* C10: a failed check has been returned as a server-final, not thrown
C10_Witness ==
    /\ ServerReady
    /\ ~ServerFinalChecks(server, repo).ok
    /\ Returned("server", "createServerFinalMessage")
    /\ server.serverFinalMessage = ret.value
    /\ ret.value.error # FalseValue

(***************************************************************************)
(* C11.  Every exchange operation throws its precondition error exactly    *)
(* when one of the slots it requires is unset, and a call that throws it   *)
(* produces no message.                                                    *)
(***************************************************************************)
\* the operations that read predecessor slots
GuardedOps ==
    {<<"server", "createServerFirstMessage">>,
     <<"client", "getSaltedPassword">>,
     <<"client", "createClientFinalMessage">>,
     <<"server", "createServerFinalMessage">>,
     <<"server", "verifyClientFinalMessage">>,
     <<"client", "verifyServerFinalMessage">>}

\* the slots the guard of an operation reads
RequiredSlots(op) ==
    CASE op = "createServerFirstMessage" -> {"clientFirstMessage"}
      [] op \in {"getSaltedPassword", "createClientFinalMessage"} ->
            {"clientFirstMessage", "serverFirstMessage"}
      [] op \in {"createServerFinalMessage", "verifyClientFinalMessage"} ->
            {"clientFirstMessage", "serverFirstMessage", "clientFinalMessage"}
      [] op = "verifyServerFinalMessage" -> Slots

\* the message of the Error thrown from the else branch of the guard
PreconditionError(op) ==
    CASE op = "createServerFirstMessage" ->
            "Unable to create server-first-message, missing client-first-message."
      [] op = "getSaltedPassword" ->
            "Unable to create salted password, missing client-first-message or server-first-message."
      [] op = "createClientFinalMessage" ->
            "Unable to create client-final-message, missing client-first-message or server-first-message."
      [] op = "createServerFinalMessage" ->
            "Unable to create server-final-message, missing client-first-message, server-first-message, or client-final-message."
      [] op = "verifyClientFinalMessage" ->
            "Unable to verify client-final-message, missing client-first-message, server-first-message, or client-final-message."
      [] op = "verifyServerFinalMessage" ->
            "Unable to verify server-final-message, missing client-first-message, server-first-message, client-final-message or server-final-message."

\* the last call threw the precondition error of its operation
FailedPrecondition(call) ==
    call.threw /\ call.error = PreconditionError(call.op)

\* C11: a call of a guarded operation throws the precondition error of the
\* operation if and only if a slot it requires was unset when it was called,
\* and then it leaves every slot of both exchange objects as it was and
\* returns no message
C11_PreconditionErrorsExactlyWhenSlotUnset ==
    [][\A guarded \in GuardedOps :
          (ret'.side = guarded[1] /\ ret'.op = guarded[2]) =>
              LET missing == \E slot \in RequiredSlots(guarded[2]) :
                                 Self(guarded[1])[slot] = None
              IN  /\ FailedPrecondition(ret') <=> missing
                  /\ missing => /\ client' = client
                                /\ server' = server
                                /\ ret'.value = None]_vars

\* C11: verifyServerFinalMessage has thrown for a client that holds every
\* message but the server-final
C11_Witness ==
    /\ LastCall("client", "verifyServerFinalMessage")
    /\ FailedPrecondition(ret)
    /\ client.clientFinalMessage # None
    /\ client.serverFinalMessage = None

(***************************************************************************)
(* C12.  client.getSaltedPassword(password) fails and derives no key when  *)
(* the iteration count of the server-first is above maxIterations; with a  *)
(* count up to the maximum and both predecessor slots set it returns a     *)
(* salted password.                                                        *)
(***************************************************************************)
\* the step is a call of client.getSaltedPassword on a client that holds the
\* client-first and the server-first
SaltedPasswordAsked ==
    /\ ret'.side = "client"
    /\ ret'.op = "getSaltedPassword"
    /\ client.clientFirstMessage # None
    /\ client.serverFirstMessage # None

\* the call threw the iteration limit and left the caller without a new key
RefusedIterations ==
    /\ ret'.threw
    /\ ret'.error = "Iteration count exceeed maximum"
    /\ ret'.value = None
    /\ callerSaltedPassword' = callerSaltedPassword

\* the call returned the PBKDF2 of a password under the salt and the
\* iteration count of the server-first
DerivedSaltedPassword ==
    /\ ~ret'.threw
    /\ callerSaltedPassword' = ret'.value
    /\ \E password \in Passwords :
          ret'.value = pbkdf2(Utf8(password), client.serverFirstMessage.salt,
                              client.serverFirstMessage.iterations).value

\* C12 as stated: above the maximum the call is refused, and for every count
\* up to the maximum it returns a salted password
C12_ReturnsUpToMaximum ==
    [][SaltedPasswordAsked =>
          IF client.serverFirstMessage.iterations > client.maxIterations
          THEN RefusedIterations
          ELSE DerivedSaltedPassword]_vars

\* C12 amended: above the maximum the call is refused; for a count from 1 to
\* the maximum it returns a salted password; for a count below 1 it throws
\* the error of the key derivation and the caller gets no key
C12_ReturnsFromOneUpToMaximum ==
    [][SaltedPasswordAsked =>
          LET iterations == client.serverFirstMessage.iterations
          IN  IF iterations > client.maxIterations THEN RefusedIterations
              ELSE IF iterations >= 1 THEN DerivedSaltedPassword
              ELSE /\ ret'.threw
                   /\ ret'.error = "OperationError"
                   /\ callerSaltedPassword' = callerSaltedPassword]_vars

\* C12: getSaltedPassword has refused a server-first whose iteration count
\* is one above the maximum
C12_Witness ==
    /\ LastCall("client", "getSaltedPassword")
    /\ client.serverFirstMessage # None
    /\ client.serverFirstMessage.iterations = client.maxIterations + 1
    /\ ret.threw
    /\ ret.error = "Iteration count exceeed maximum"
    /\ callerSaltedPassword = NoBytes

(***************************************************************************)
(* C13.  For an unknown user createServerFirstMessage returns a message of *)
(* the same form r=<client nonce + fresh server nonce>,s=<salt>,           *)
(* i=<iterations> as for a known user, the salt being that of the salt     *)
(* policy and the iteration count the configured default; with the         *)
(* peppered policy the salt and the count are the same every time the same *)
(* unknown user asks.                                                      *)
(***************************************************************************)
\* the message is r=<c_nonce><s_nonce>,s=<salt>,i=<iterations>, and exposes
\* that nonce, salt and iteration count
HasServerFirstForm(message, c_nonce, s_nonce, salt, iterations) ==
    /\ message.message =
          Str(<<"r", "=">>) \o c_nonce \o s_nonce
              \o Str(<<",", "s", "=">>) \o Base64FromUint8Array(salt)
              \o Str(<<",", "i", "=">>) \o NatToString(iterations)
    /\ message.nonce = c_nonce \o s_nonce
    /\ message.salt = salt
    /\ message.iterations = iterations

\* the server nonce made of the random buffer drawn last
LastServerNonce == Base64FromUint8Array(RandomValues(drawn, NonceBytes))

\* the server-first the client holds was issued earlier by this server for
\* the client-first it still holds
IssuedEarlier ==
    /\ client.serverFirstMessage # None
    /\ \E k \in 1..(drawn - 1) :
          client.serverFirstMessage.message = ServerFirstText(server, repo, k)

\* C13: the server-first returned for an unknown user has the form of the
\* one returned for a known user, with the peppered salt of the user name
\* and the default iteration count of the server, whatever was issued
\* before; one issued earlier for the same user name carries the same salt
\* and count under another nonce
C13_ServerFirstSameFormForUnknownUser ==
    Returned("server", "createServerFirstMessage") =>
        LET username == server.clientFirstMessage.user
            c_nonce == server.clientFirstMessage.nonce
        IN  /\ server.serverFirstMessage = ret.value
            /\ IF RepoHas(repo, username)
               THEN HasServerFirstForm(ret.value, c_nonce, LastServerNonce,
                                       repo[username].salt, repo[username].iterations)
               ELSE HasServerFirstForm(ret.value, c_nonce, LastServerNonce,
                                       PepperedSalt(username), server.iterations)
            /\ IssuedEarlier =>
                  /\ client.serverFirstMessage.salt = ret.value.salt
                  /\ client.serverFirstMessage.iterations = ret.value.iterations
                  /\ client.serverFirstMessage.nonce # ret.value.nonce

\* C13: an unknown user has been issued a second server-first
C13_Witness ==
    /\ Returned("server", "createServerFirstMessage")
    /\ ~RepoHas(repo, server.clientFirstMessage.user)
    /\ IssuedEarlier
    /\ ret.value.salt = PepperedSalt(server.clientFirstMessage.user)
    /\ ret.value.iterations = DefaultIterations

(***************************************************************************)
(* C14.  In every exchange object each of the four slots is assigned at    *)
(* most once, and only when every slot that precedes it in protocol order  *)
(* is already set.                                                         *)
(***************************************************************************)
\* the slots in protocol order
SlotOrder == <<"clientFirstMessage", "serverFirstMessage", "clientFinalMessage",
               "serverFinalMessage">>

\* the slots that precede `slot` in protocol order
Preceding(slot) ==
    {SlotOrder[j] : j \in {i \in 1..Len(SlotOrder) : \E n \in 1..Len(SlotOrder) :
                                 SlotOrder[n] = slot /\ i < n}}

\* the step leaves the slot of the exchange object alone, or fills it while
\* it is empty and the slots before it are set
FilledOnceInOrder(before, after, slot) ==
    after[slot] # before[slot] =>
        /\ before[slot] = None
        /\ \A earlier \in Preceding(slot) : before[earlier] # None

\* C14: no step on an exchange object assigns a slot that is already set or
\* a slot whose predecessors in protocol order are not all set
C14_SlotsFilledOnceInOrder ==
    [][exchanges' = exchanges =>
          \A slot \in Slots :
              /\ FilledOnceInOrder(client, client', slot)
              /\ FilledOnceInOrder(server, server', slot)]_vars

(***************************************************************************)
(* C15.  Once createServerFinalMessage of a server exchange has produced a *)
(* server-final that carries an error, no later operation on that exchange *)
(* object produces a server-final that carries a verifier or makes         *)
(* verifyClientFinalMessage() return true.                                 *)
(***************************************************************************)
\* the step is a call of createServerFinalMessage that returns a verifier
IssuesVerifier ==
    /\ ret'.side = "server"
    /\ ret'.op = "createServerFinalMessage"
    /\ ~ret'.threw
    /\ ret'.value.verifier # FalseValue

\* C15: from a state in which the server holds the server-final with an
\* error that its createServerFinalMessage produced, no call on the same
\* server object issues a server-final with a verifier
C15_FailedExchangeIsTerminal ==
    [][(ServerFailed /\ exchanges' = exchanges) => ~IssuesVerifier]_server

(***************************************************************************)
(* Two exchanges at the same time.  Each connection has its own            *)
(* ScramRequestClient and ScramRequestServer and a caller that runs the    *)
(* exchange in protocol order; the connections share the algorithm object, *)
(* which holds no mutable field, and the repository, which is only read.   *)
(* An async operation is suspended at its first await and resumed later,   *)
(* the calls of the other connection running in between; what a suspended  *)
(* call keeps is its own: `this` and its arguments.                        *)
(***************************************************************************)
\* connections open at the same time
MaxConnections == 2

Connections == 1..MaxConnections

\* the calls a caller makes, in the order of the standard exchange
Program ==
    <<[kind |-> "sync", side |-> "client", op |-> "createClientFirstMessage"],
      [kind |-> "hand", side |-> "server", op |-> "clientFirstMessage"],
      [kind |-> "async", side |-> "server", op |-> "createServerFirstMessage"],
      [kind |-> "hand", side |-> "client", op |-> "serverFirstMessage"],
      [kind |-> "async", side |-> "client", op |-> "getSaltedPassword"],
      [kind |-> "async", side |-> "client", op |-> "createClientFinalMessage"],
      [kind |-> "hand", side |-> "server", op |-> "clientFinalMessage"],
      [kind |-> "async", side |-> "server", op |-> "createServerFinalMessage"],
      [kind |-> "async", side |-> "server", op |-> "verifyClientFinalMessage"],
      [kind |-> "hand", side |-> "client", op |-> "serverFinalMessage"],
      [kind |-> "async", side |-> "client", op |-> "verifyServerFinalMessage"]>>

\* the async operations, whose outcome the caller awaits
AsyncOps == {Program[i].op : i \in {j \in 1..Len(Program) : Program[j].kind = "async"}}

\* the exchange objects of a connection and the position of its caller
NewPair(user, password) ==
    [client |-> ScramRequestClient(DEFAULT_MAX_ITERATIONS),
     server |-> ScramRequestServer(DefaultIterations, FALSE),
     user |-> user,
     password |-> password,
     saltedPassword |-> NoBytes,
     returned |-> [op \in AsyncOps |-> None],
     frame |-> None,
     pc |-> 1]

\* the step the caller of connection x makes next
StepOf(ps, x) == Program[ps[x].pc]

Finished(ps, x) == ps[x].pc > Len(Program)

\* a suspended call kept in one field that every connection reads
SuspendedInSharedField(ps, x, call) ==
    [y \in DOMAIN ps |-> [ps[y] EXCEPT !.frame = call]]

\* the call of connection x is suspended at its await: its frame is its own
Suspended(ps, x, call) == [ps EXCEPT ![x].frame = call]

\* client.createClientFirstMessage(user) of connection x, which has no await
AfterCreateClientFirstMessage(ps, x) ==
    LET outcome == CreateClientFirstMessage(ps[x].client, ps[x].user, <<x, 1>>)
    IN  [ps EXCEPT ![x].client = Assigned(@, "clientFirstMessage", outcome),
                   ![x].pc = @ + 1]

\* the setter of a slot called with the message the other side holds
AfterHand(ps, x) ==
    LET slot == StepOf(ps, x).op
    IN  IF StepOf(ps, x).side = "server"
        THEN [ps EXCEPT ![x].server = [@ EXCEPT ![slot] = ps[x].client[slot]],
                        ![x].pc = @ + 1]
        ELSE [ps EXCEPT ![x].client = [@ EXCEPT ![slot] = ps[x].server[slot]],
                        ![x].pc = @ + 1]

\* an async operation is called on an exchange object of connection x and
\* suspends
AfterCall(ps, x) ==
    Suspended(ps, x, [op |-> StepOf(ps, x).op,
                      this |-> x,
                      password |-> ps[x].password,
                      saltedPassword |-> ps[x].saltedPassword])

\* what the suspended call does when it runs on
Resumed(call, this) ==
    CASE call.op = "createServerFirstMessage" ->
            CreateServerFirstMessage(this.server, repo, <<call.this, 2>>)
      [] call.op = "getSaltedPassword" ->
            ClientGetSaltedPassword(this.client, call.password)
      [] call.op = "createClientFinalMessage" ->
            CreateClientFinalMessage(this.client, call.saltedPassword)
      [] call.op = "createServerFinalMessage" ->
            CreateServerFinalMessage(this.server, repo)
      [] call.op = "verifyClientFinalMessage" ->
            VerifyClientFinalMessage(this.server, repo)
      [] call.op = "verifyServerFinalMessage" ->
            VerifyServerFinalMessage(this.client, call.saltedPassword)

\* the exchange objects of a connection after the call assigned its slot
Completed(this, call, outcome) ==
    CASE call.op \in {"createServerFirstMessage", "createServerFinalMessage"} ->
            [this EXCEPT !.server =
                Assigned(@, IF call.op = "createServerFirstMessage"
                            THEN "serverFirstMessage" ELSE "serverFinalMessage", outcome)]
      [] call.op = "createClientFinalMessage" ->
            [this EXCEPT !.client = Assigned(@, "clientFinalMessage", outcome)]
      [] OTHER -> this

\* the call suspended for connection x runs on: it assigns the slot of the
\* object it was called on, and the caller of x gets its outcome
AfterResume(ps, x) ==
    LET call == ps[x].frame
        outcome == Resumed(call, ps[call.this])
        assigned == [ps EXCEPT ![call.this] = Completed(@, call, outcome)]
    IN  [assigned EXCEPT
            ![x].returned = [@ EXCEPT ![call.op] = outcome],
            ![x].saltedPassword =
                IF call.op = "getSaltedPassword" /\ ~outcome.threw
                THEN outcome.value ELSE @,
            ![x].frame = None,
            ![x].pc = @ + 1]

\* the state of the single exchange, which the two connections leave alone
single == <<client, server, repo, callerSaltedPassword, ret, recorded, exchanges,
            drawn, deviations>>

PairCreateClientFirstMessage(x) ==
    /\ ~Finished(pairs, x)
    /\ StepOf(pairs, x).kind = "sync"
    /\ pairs' = AfterCreateClientFirstMessage(pairs, x)
    /\ UNCHANGED <<single, parsing, salting, running>>

PairHand(x) ==
    /\ ~Finished(pairs, x)
    /\ StepOf(pairs, x).kind = "hand"
    /\ pairs' = AfterHand(pairs, x)
    /\ UNCHANGED <<single, parsing, salting, running>>

PairCall(x) ==
    /\ ~Finished(pairs, x)
    /\ StepOf(pairs, x).kind = "async"
    /\ pairs[x].frame = None
    /\ pairs' = AfterCall(pairs, x)
    /\ UNCHANGED <<single, parsing, salting, running>>

PairResume(x) ==
    /\ ~Finished(pairs, x)
    /\ pairs[x].frame # None
    /\ pairs' = AfterResume(pairs, x)
    /\ UNCHANGED <<single, parsing, salting, running>>

InitTwo ==
    /\ client = ScramRequestClient(DEFAULT_MAX_ITERATIONS)
    /\ server = ScramRequestServer(DefaultIterations, FALSE)
    /\ repo = TestRepo
    /\ callerSaltedPassword = NoBytes
    /\ ret = NoCall
    /\ recorded = [slot \in Slots |-> {}]
    /\ exchanges = 1
    /\ drawn = 0
    /\ deviations = 0
    /\ parsing = None
    /\ salting = None
    /\ running = None
    /\ pairs \in {[x \in Connections |-> NewPair(who[x][1], who[x][2])] :
                    who \in [Connections -> Usernames \X Passwords]}

NextTwo ==
    \/ \E x \in Connections : PairCreateClientFirstMessage(x)
    \/ \E x \in Connections : PairHand(x)
    \/ \E x \in Connections : PairCall(x)
    \/ \E x \in Connections : PairResume(x)

SpecTwo == InitTwo /\ [][NextTwo]_vars

(***************************************************************************)
(* C16.  Two exchanges whose operations are interleaved at their           *)
(* suspension points in any order each end with the same slots and the     *)
(* same verification results as when they run alone.                       *)
(***************************************************************************)
\* the next step of the only connection of ps
AloneStep(ps, x) ==
    IF ps[x].frame # None THEN AfterResume(ps, x)
    ELSE CASE StepOf(ps, x).kind = "sync" -> AfterCreateClientFirstMessage(ps, x)
           [] StepOf(ps, x).kind = "hand" -> AfterHand(ps, x)
           [] StepOf(ps, x).kind = "async" -> AfterCall(ps, x)

RECURSIVE RunAlone(_, _, _)
RunAlone(ps, x, pc) ==
    IF ps[x].pc >= pc /\ ps[x].frame = None THEN ps[x]
    ELSE RunAlone(AloneStep(ps, x), x, pc)

\* where the exchange of connection x is after the calls before position pc
\* of its caller when no other connection is open
Alone(x, pc) ==
    RunAlone([y \in {x} |-> NewPair(pairs[x].user, pairs[x].password)], x, pc)

\* C16: between the calls of its caller, and so when the caller has made its
\* last call, the slots of the client and of the server of a connection, its
\* salted password and what its calls returned are those of the same
\* exchange run alone, whatever the other connection did in between
C16_InterleavedExchangeEndsAsAlone ==
    \A x \in Connections :
        pairs[x].frame = None => pairs[x] = Alone(x, pairs[x].pc)

\* C16: the exchange of a registered user has ended authenticated while a
\* call of the other connection, of an unknown user, was suspended
C16_Witness ==
    \E x, y \in Connections :
        /\ x # y
        /\ Finished(pairs, x)
        /\ pairs[x].returned["verifyClientFinalMessage"] = Return(TRUE)
        /\ pairs[x].returned["verifyServerFinalMessage"] = Return(TRUE)
        /\ pairs[y].frame # None
        /\ pairs[y].frame.op = "createServerFinalMessage"
        /\ ~RepoHas(repo, pairs[y].user)

(***************************************************************************)
(* C17.  No message that either side produces for the wire contains the    *)
(* cleartext password, the salted password, the ClientKey, the StoredKey   *)
(* or the ServerKey as a field; the only password-derived values sent are  *)
(* the client proof and the server verifier.                               *)
(***************************************************************************)
WireOps ==
    {"createClientFirstMessage", "createServerFirstMessage",
     "createClientFinalMessage", "createServerFinalMessage"}

\* the salted passwords of the exchange: those of the registered users, those
\* a caller derives from a password it types, and the one the caller holds
SaltedPasswords ==
    ({callerSaltedPassword}
        \cup {RegisteredSaltedPassword(reg) : reg \in Registrations}
        \cup UNION {SaltedPasswordsOf(password, reg) :
                        password \in Passwords, reg \in Registrations})
    \ {NoBytes}

\* the values that must stay off the wire, as bytes
SecretBytes ==
    {Utf8(password) : password \in Passwords}
        \cup {Utf8(saslPrep(password).value) : password \in Passwords}
        \cup SaltedPasswords
        \cup {getClientKey(salted) : salted \in SaltedPasswords}
        \cup {getStoredKey(salted) : salted \in SaltedPasswords}
        \cup {getServerKey(salted) : salted \in SaltedPasswords}
        \cup {user.storedKey : user \in {repo[name] : name \in DOMAIN repo}}
        \cup {user.serverKey : user \in {repo[name] : name \in DOMAIN repo}}

\* the field holds a secret, as it is or Base64-encoded
HoldsSecret(value) ==
    \/ Utf8(value) \in SecretBytes
    \/ Base64ToUint8Array(value) \in SecretBytes

\* the digest term was computed from a password: PBKDF2 is in it
RECURSIVE FromPassword(_)
FromPassword(term) ==
    LET NamedFromPassword(named) ==
            CASE named[1] = "out" -> FromPassword(named[2])
              [] named[1] = "utf8" ->
                    \E i \in 1..Len(named[2]) :
                        /\ named[2][i][1] = "b"
                        /\ \E atom \in named[2][i][2] : FromPassword(atom[1])
              [] OTHER ->
                    \E i \in 1..Len(named[2]) :
                        \E atom \in named[2][i] : FromPassword(atom[1])
    IN  CASE term[1] = "pbkdf2" -> TRUE
          [] term[1] = "hmac" -> NamedFromPassword(term[2]) \/ NamedFromPassword(term[3])
          [] term[1] = "hash" -> NamedFromPassword(term[2])
          [] OTHER -> FALSE

\* the field is a password or was computed from one
PasswordDerived(value) ==
    \/ value \in Passwords \cup {saslPrep(password).value : password \in Passwords}
    \/ \E i \in 1..Len(value) :
          /\ value[i][1] = "b"
          /\ \E atom \in value[i][2] : FromPassword(atom[1])

\* the field of a wire message that carries the proof or the verifier
ProofField(op, key) ==
    \/ op = "createClientFinalMessage" /\ key = Str(<<"p">>)
    \/ op = "createServerFinalMessage" /\ key = Str(<<"v">>)

\* C17: no field of a message that createClientFirstMessage,
\* createServerFirstMessage, createClientFinalMessage or
\* createServerFinalMessage returns is the password, the salted password,
\* the ClientKey, the StoredKey or the ServerKey, in clear or Base64, and
\* every field other than the proof p of the client-final and the verifier v
\* of the server-final holds nothing computed from a password
C17_NoSecretOnTheWire ==
    (ret.op \in WireOps /\ ~ret.threw) =>
        LET fields == readScramParamString(ret.value.message)
        IN  \A key \in DOMAIN fields :
                /\ ~HoldsSecret(fields[key])
                /\ ~ProofField(ret.op, key) => ~PasswordDerived(fields[key])

\* C17: the client has produced a client-final whose proof was computed
\* from the salted password of the registered password, and the server a
\* server-final with a verifier
C17_Witness ==
    /\ Returned("server", "createServerFinalMessage")
    /\ ret.value.verifier # FalseValue
    /\ PasswordDerived(ret.value.verifier)
    /\ client.clientFinalMessage # None
    /\ PasswordDerived(client.clientFinalMessage.clientProof)
    /\ callerSaltedPassword \in {RegisteredSaltedPassword(reg) : reg \in Registrations}

(***************************************************************************)
(* Reading a message off the wire.  A text arrives and one of the four     *)
(* message classes is constructed from it; the texts are the lists of at   *)
(* most MaxParts attributes, joined by commas, that can be made of the     *)
(* attributes below.                                                       *)
(***************************************************************************)
\* attributes in a text
MaxParts == 4

AttributeLists(parts) == UNION {[1..k -> parts] : k \in 0..MaxParts}

TextsOf(parts) == {Join(list, <<COMMA>>) : list \in AttributeLists(parts)}

ServerFirstParts ==
    {Str(<<"r", "=", "N">>), Str(<<"r", "=">>), Str(<<"s", "=", "Q">>),
     Str(<<"i", "=", "4", "0", "9", "6">>), Str(<<"i", "=", "0">>),
     Str(<<"i", "=", "-", "5">>), Str(<<"i", "=", "a", "b">>),
     Str(<<"i", "=", "1", "2", "a">>)}

ClientFirstParts ==
    {<<>>, Str(<<"n">>), Str(<<"n", "=", "u">>), Str(<<"n", "=">>),
     Str(<<"n", "=", "~">>), Str(<<"r", "=", "N">>), Str(<<"r", "=">>),
     Str(<<"m", "=", "x">>)}

ClientFinalParts ==
    {Str(<<"c", "=", "b">>), Str(<<"c", "=">>), Str(<<"r", "=", "N">>),
     Str(<<"r", "=">>), Str(<<"p", "=", "X">>), Str(<<"p", "=">>), Str(<<"x">>)}

ServerFinalParts ==
    {Str(<<"v", "=", "X">>), Str(<<"v", "=">>), Str(<<"e", "=", "x">>), Str(<<"x">>)}

WireTexts ==
    TextsOf(ServerFirstParts) \cup TextsOf(ClientFirstParts)
        \cup TextsOf(ClientFinalParts) \cup TextsOf(ServerFinalParts)

\* new <class>(text): what the constructor built, or the error it threw
Read(class, built) ==
    /\ parsing' = [parsing EXCEPT !.class = class, !.result = built]
    /\ UNCHANGED <<single, pairs, salting, running>>

NewScramMessageClientFirst ==
    Read("ScramMessageClientFirst", ScramMessageClientFirst(parsing.text))

NewScramMessageServerFirst ==
    Read("ScramMessageServerFirst", ScramMessageServerFirst(parsing.text))

NewScramMessageClientFinal ==
    Read("ScramMessageClientFinal", ScramMessageClientFinal(parsing.text))

NewScramMessageServerFinal ==
    Read("ScramMessageServerFinal", ScramMessageServerFinal(parsing.text))

InitRead ==
    /\ client = ScramRequestClient(DEFAULT_MAX_ITERATIONS)
    /\ server = ScramRequestServer(DefaultIterations, FALSE)
    /\ repo = TestRepo
    /\ callerSaltedPassword = NoBytes
    /\ ret = NoCall
    /\ recorded = [slot \in Slots |-> {}]
    /\ exchanges = 1
    /\ drawn = 0
    /\ deviations = 0
    /\ pairs = <<>>
    /\ salting = None
    /\ running = None
    /\ parsing \in {[text |-> text, class |-> "", result |-> None] : text \in WireTexts}

NextRead ==
    \/ NewScramMessageClientFirst
    \/ NewScramMessageServerFirst
    \/ NewScramMessageClientFinal
    \/ NewScramMessageServerFinal

SpecRead == InitRead /\ [][NextRead]_vars

\* the attributes of a text: the value after "key=" in the list of
\* attributes the text is, undefined when the key is not in it
Attribute(text, key) == Param(readScramParamString(text), key)

\* the text was read as a message of the class
ReadAs(class) == parsing.class = class /\ parsing.result.ok

FailedAs(class, error) ==
    parsing.class = class /\ ~parsing.result.ok /\ parsing.result.error = error

(***************************************************************************)
(* C18.  Parsing a server-first message succeeds only if r, s and i are    *)
(* all present and non-empty and i is an integer greater than or equal to  *)
(* 0; a message lacking any of the three, or whose i is not a number,      *)
(* fails with "Unable to read server-first-message"; a parsed message      *)
(* exposes the nonce, the decoded salt and the iteration count.            *)
(***************************************************************************)
\* the decimal numeral of an integer greater than or equal to 0
IsNonNegativeInteger(s) == Truthy(s) /\ \A k \in 1..Len(s) : IsDigit(s[k])

\* C18 as stated: a text read as a server-first has r, s and i non-empty and
\* i the numeral of an integer >= 0, and the message holds r, the bytes s
\* decodes to and the number i; a text without one of the three, or whose i
\* is no number, fails with "Unable to read server-first-message"
C18_ServerFirstReadOnlyWithNonNegativeInteger ==
    parsing.class = "ScramMessageServerFirst" =>
        LET r == Attribute(parsing.text, "r")
            s == Attribute(parsing.text, "s")
            i == Attribute(parsing.text, "i")
        IN  /\ parsing.result.ok =>
                /\ Truthy(r) /\ Truthy(s) /\ Truthy(i)
                /\ IsNonNegativeInteger(i)
                /\ parsing.result.msg.nonce = r
                /\ parsing.result.msg.salt = Base64ToUint8Array(s)
                /\ parsing.result.msg.iterations = DecimalValue(i)
            /\ (~Truthy(r) \/ ~Truthy(s) \/ ~Truthy(i) \/ ~IsNonNegativeInteger(i)) =>
                FailedAs("ScramMessageServerFirst", "Unable to read server-first-message")

(***************************************************************************)
(* C19.  Parsing a client-first message takes the channel-binding flag     *)
(* from the text before the first comma, ignores the authorization         *)
(* identity between the first and second comma, and takes the bare message *)
(* as everything after the second comma; it succeeds only if the username  *)
(* n and the nonce r are both present and non-empty, and fails otherwise.  *)
(***************************************************************************)
\* the 0-based positions of the first and of the second comma, -1 if none
FirstComma(text) == IndexOf(text, <<COMMA>>, 0)

SecondComma(text) ==
    IF FirstComma(text) = -1 THEN -1 ELSE IndexOf(text, <<COMMA>>, FirstComma(text) + 1)

\* everything after the second comma
AfterSecondComma(text) == Substring(text, SecondComma(text) + 1, Len(text))

\* C19 as stated: of a text with two commas read as a client-first, the flag
\* is the text before the first comma and the bare message the text after
\* the second; the user and the nonce are the n and the r of the bare
\* message, both non-empty, whatever stands between the two commas; and a
\* text whose bare message has no n or no r fails
C19_ClientFirstReadFromFlagAndBareMessage ==
    (parsing.class = "ScramMessageClientFirst" /\ SecondComma(parsing.text) # -1) =>
        LET bare == AfterSecondComma(parsing.text)
            n == Attribute(bare, "n")
            r == Attribute(bare, "r")
        IN  /\ parsing.result.ok =>
                /\ parsing.result.msg.gs2CbindFlag =
                        Substring(parsing.text, 0, FirstComma(parsing.text))
                /\ parsing.result.msg.messageBare = bare
                /\ Truthy(n) /\ Truthy(r)
                /\ parsing.result.msg.user = saslPrep(n).value
                /\ parsing.result.msg.nonce = r
            /\ (~Truthy(n) \/ ~Truthy(r)) => ~parsing.result.ok

(***************************************************************************)
(* C20.  Parsing a client-final message splits the text at the literal     *)
(* ",p=" into the part without proof and the proof, reads c and r from the *)
(* part without proof, and succeeds only if the part without proof, c, r   *)
(* and the proof are all non-empty; otherwise it fails with "Unable to     *)
(* read client-final-message".  The part without proof that it exposes is  *)
(* exactly the text before ",p=".                                          *)
(***************************************************************************)
ProofMark == <<COMMA, Chr("p"), EQUALS>>

\* the text before the first ",p=", the whole text when there is none
BeforeProof(text) ==
    IF IndexOf(text, ProofMark, 0) = -1 THEN text
    ELSE Substring(text, 0, IndexOf(text, ProofMark, 0))

\* the text after the first ",p=" up to the next one, undefined when the
\* text has no ",p="
ProofOf(text) ==
    LET rest == Substring(text, IndexOf(text, ProofMark, 0) + Len(ProofMark), Len(text))
    IN  IF IndexOf(text, ProofMark, 0) = -1 THEN Undefined
        ELSE BeforeProof(rest)

\* C20: a text is read as a client-final exactly when the text before ",p=",
\* the c and the r in it and the text after ",p=" are all non-empty, and it
\* fails with "Unable to read client-final-message" otherwise; the message
\* read exposes the text before ",p=" as the part without proof, the text
\* after it as the proof, and the c and r of the part without proof
C20_ClientFinalSplitAtProof ==
    parsing.class = "ScramMessageClientFinal" =>
        LET without == BeforeProof(parsing.text)
            proof == ProofOf(parsing.text)
            c == Attribute(without, "c")
            r == Attribute(without, "r")
        IN  /\ parsing.result.ok <=>
                (Truthy(without) /\ Truthy(c) /\ Truthy(r) /\ Truthy(proof))
            /\ ~parsing.result.ok =>
                parsing.result.error = "Unable to read client-final-message"
            /\ parsing.result.ok =>
                /\ parsing.result.msg.messageWithoutProof = without
                /\ parsing.result.msg.clientProof = proof
                /\ parsing.result.msg.gs2Header = c
                /\ parsing.result.msg.nonce = r

\* C20: the text c=b,r=N,p=X was read as a client-final with the part
\* without proof c=b,r=N and the proof X
C20_Witness ==
    /\ ReadAs("ScramMessageClientFinal")
    /\ parsing.text = Str(<<"c", "=", "b", ",", "r", "=", "N", ",", "p", "=", "X">>)
    /\ parsing.result.msg.messageWithoutProof = Str(<<"c", "=", "b", ",", "r", "=", "N">>)
    /\ parsing.result.msg.clientProof = Str(<<"X">>)

(***************************************************************************)
(* C21.  Parsing a server-final message succeeds exactly when an e value   *)
(* or a v value can be extracted: a message with neither fails with        *)
(* "Unable to read server-final-message", and a parsed message never       *)
(* exposes both an error and a verifier at once.                           *)
(***************************************************************************)
\* C21 as stated: a text is read as a server-final exactly when its e or its
\* v is non-empty, it fails with "Unable to read server-final-message"
\* otherwise, and of getError() and getVerifier() of the message read
\* exactly one is set
C21_ServerFinalHoldsErrorOrVerifier ==
    parsing.class = "ScramMessageServerFinal" =>
        LET e == Attribute(parsing.text, "e")
            v == Attribute(parsing.text, "v")
        IN  /\ parsing.result.ok <=> (Truthy(e) \/ Truthy(v))
            /\ ~parsing.result.ok =>
                parsing.result.error = "Unable to read server-final-message"
            /\ parsing.result.ok =>
                (parsing.result.msg.error = FalseValue)
                    # (parsing.result.msg.verifier = FalseValue)

(***************************************************************************)
(* The salt generators on their own.  A PepperedSaltGenerator with the     *)
(* pepper of the tests and a RandomSaltGenerator of some length are        *)
(* constructed, and get is called on one or the other; `salting` keeps the *)
(* length, the number of buffers drawn and what each call returned.        *)
(***************************************************************************)
\* calls of get
MaxCalls == 3

\* the lengths a RandomSaltGenerator is constructed with
SaltLengths == {0, NonceBytes}

\* a RandomSaltGenerator that fills its buffer once, when it is constructed
RandomSaltDrawnOnce(length, k) == hash(RandomValues(<<"salt", 0>>, length))

\* RandomSaltGenerator.get: the hash of a buffer of `length` random bytes,
\* k naming the outcome of getRandomValues
RandomSalt(length, k) == hash(RandomValues(<<"salt", k>>, length))

\* a call of get returned
Got(policy, username, salt) ==
    /\ Len(salting.calls) < MaxCalls
    /\ salting' = [salting EXCEPT
                      !.calls = Append(@, [policy |-> policy,
                                           username |-> username,
                                           salt |-> salt])]
    /\ UNCHANGED <<single, pairs, parsing, running>>

PepperedSaltGeneratorGet(username) ==
    Got("peppered", username, PepperedSalt(username))

RandomSaltGeneratorGet(username) ==
    Got("random", username, RandomSalt(salting.length, Len(salting.calls) + 1))

InitSalt ==
    /\ client = ScramRequestClient(DEFAULT_MAX_ITERATIONS)
    /\ server = ScramRequestServer(DefaultIterations, FALSE)
    /\ repo = TestRepo
    /\ callerSaltedPassword = NoBytes
    /\ ret = NoCall
    /\ recorded = [slot \in Slots |-> {}]
    /\ exchanges = 1
    /\ drawn = 0
    /\ deviations = 0
    /\ pairs = <<>>
    /\ parsing = None
    /\ salting \in {[length |-> length, calls |-> <<>>] : length \in SaltLengths}
    /\ running = None

NextSalt ==
    \/ \E username \in Usernames : PepperedSaltGeneratorGet(username)
    \/ \E username \in Usernames : RandomSaltGeneratorGet(username)

SpecSalt == InitSalt /\ [][NextSalt]_vars

\* the calls of get on the generator of a policy, in order
CallsOf(policy) == SelectSeq(salting.calls, LAMBDA call : call.policy = policy)

(***************************************************************************)
(* C22.  The peppered salt policy is a deterministic function of the       *)
(* username: two calls of get with the same username return identical      *)
(* bytes, and calls with two different usernames return different bytes.   *)
(***************************************************************************)
\* C22: of the calls of get on the peppered generator, two with the same
\* username returned the same bytes and two with different usernames
\* different bytes
C22_PepperedSaltIsFunctionOfUsername ==
    \A i, j \in 1..Len(CallsOf("peppered")) :
        (CallsOf("peppered")[i].username = CallsOf("peppered")[j].username)
            <=> (CallsOf("peppered")[i].salt = CallsOf("peppered")[j].salt)

\* C22: get was called on the peppered generator twice with one username
\* and once with another, calls of the random generator in between or not
C22_Witness ==
    \E i, j, k \in 1..Len(CallsOf("peppered")) :
        /\ i < j
        /\ CallsOf("peppered")[i].username = CallsOf("peppered")[j].username
        /\ CallsOf("peppered")[k].username # CallsOf("peppered")[i].username

(***************************************************************************)
(* C23.  The random salt policy returns a salt that does not depend on the *)
(* username and differs between any two calls.                             *)
(***************************************************************************)
\* C23 as stated: any two calls of get on the random generator returned
\* different bytes, whether their usernames are equal or not
C23_RandomSaltsAllDiffer ==
    \A i, j \in 1..Len(CallsOf("random")) :
        i # j => CallsOf("random")[i].salt # CallsOf("random")[j].salt

\* C23 amended: any two calls of get on a random generator constructed with
\* a length of at least one byte returned different bytes, whether their
\* usernames are equal or not; a generator of length 0 returns the hash of
\* the empty buffer on every call
C23_RandomSaltsDifferForPositiveLength ==
    \A i, j \in 1..Len(CallsOf("random")) :
        /\ (salting.length >= 1 /\ i # j) =>
                CallsOf("random")[i].salt # CallsOf("random")[j].salt
        /\ salting.length = 0 => CallsOf("random")[i].salt = hash(<<>>)

\* C23: get was called on a random generator of positive length twice with
\* the same username and once with another
C23_Witness ==
    /\ salting.length >= 1
    /\ \E i, j, k \in 1..Len(CallsOf("random")) :
        /\ i < j
        /\ CallsOf("random")[i].username = CallsOf("random")[j].username
        /\ CallsOf("random")[k].username # CallsOf("random")[i].username

(***************************************************************************)
(* C24.  createServerFinalMessage reports the first failing check in the   *)
(* fixed order extension, channel binding, user existence, proof.          *)
(***************************************************************************)
\* the error of the first check that fails, `extension` telling whether the
\* client-first counts as carrying an m extension; false when none fails
FirstFailure(extension) ==
    IF extension THEN SCRAM_EXTENSIONS_NOT_SUPPORTED
    ELSE IF server.clientFirstMessage.gs2CbindFlag # Str(<<"n">>)
    THEN SCRAM_CHANNEL_BINDING_NOT_SUPPORTED
    ELSE IF ~RepoHas(repo, server.clientFirstMessage.user) THEN SCRAM_UNKNOWN_USER
    ELSE IF ~ClientProofVerifies(server, repo) THEN SCRAM_INVALID_PROOF
    ELSE FalseValue

Transcript(request) ==
    Utf8(request.clientFirstMessage.messageBare
            \o <<COMMA>> \o request.serverFirstMessage.message
            \o <<COMMA>> \o request.clientFinalMessage.messageWithoutProof)

\* no extension, flag n, user exists, proof verifies
AllChecksPass ==
    /\ ~Truthy(server.clientFirstMessage.mext)
    /\ server.clientFirstMessage.gs2CbindFlag = Str(<<"n">>)
    /\ RepoHas(repo, server.clientFirstMessage.user)
    /\ ClientProofVerifies(server, repo)

\* the registration of the user of the client-first the server holds
RegistrationOfUser ==
    CHOOSE reg \in Registrations :
        saslPrep(reg[1]).value = server.clientFirstMessage.user

PassedAsText(slot) ==
    LET sender == IF Receiver(slot) = "server" THEN client ELSE server
        receiver == IF Receiver(slot) = "server" THEN server ELSE client
        read == CASE slot = "clientFirstMessage" ->
                        ScramMessageClientFirst(sender[slot].message)
                  [] slot = "serverFirstMessage" ->
                        ScramMessageServerFirst(sender[slot].message)
                  [] slot = "clientFinalMessage" ->
                        ScramMessageClientFinal(sender[slot].message)
                  [] slot = "serverFinalMessage" ->
                        ScramMessageServerFinal(sender[slot].message)
    IN  /\ sender[slot] # None
        /\ read.ok
        /\ receiver[slot] = read.msg

\* the client-final the client holds was built by createClientFinalMessage
\* from the messages the client holds
ClientFinalBuilt ==
    /\ client.clientFirstMessage # None
    /\ client.serverFirstMessage # None
    /\ client.clientFinalMessage # None
    /\ BeforeProof(client.clientFinalMessage.message) = ClientFinalWithoutProof(client)

\* the three texts of the transcript as they went over the wire, joined by
\* commas
WireTranscript ==
    Utf8(AfterSecondComma(client.clientFirstMessage.message)
            \o <<COMMA>> \o server.serverFirstMessage.message
            \o <<COMMA>> \o BeforeProof(client.clientFinalMessage.message))

\* C26: when the client-first, the server-first and the client-final were
\* re-parsed from their texts on the other side, the transcript that
\* createClientFinalMessage signs, the one verifyClientFinalMessage and
\* createServerFinalMessage use and the one verifyServerFinalMessage uses
\* are all the bytes of bare client-first "," server-first ","
\* client-final without proof
C26_BothSidesSameTranscript ==
    (/\ ClientFinalBuilt
     /\ \A slot \in Slots \ {"serverFinalMessage"} : PassedAsText(slot)) =>
        /\ getAuthMessage(client, ClientFinalWithoutProof(client)) = WireTranscript
        /\ getAuthMessage(server, server.clientFinalMessage.messageWithoutProof)
                = WireTranscript
        /\ getAuthMessage(client, client.clientFinalMessage.messageWithoutProof)
                = WireTranscript

\* C26: the four messages went over as text and both verifications returned
\* true on the transcript
C26_Witness ==
    /\ ClientFinalBuilt
    /\ \A slot \in Slots : PassedAsText(slot)
    /\ Returned("client", "verifyServerFinalMessage")
    /\ ret.value = TRUE
    /\ ClientProofVerifies(server, repo)

(***************************************************************************)
(* C27.  The primitive hmac(key, message) uses its first argument as the   *)
(* HMAC key and its second as the message, so that ClientKey =             *)
(* HMAC(key = saltedPassword, message = "Client Key"), ServerKey =         *)
(* HMAC(key = saltedPassword, message = "Server Key"), StoredKey =         *)
(* Hash(ClientKey), and the client signature and server verifier are HMACs *)
(* keyed by StoredKey and ServerKey over the transcript.                   *)
(***************************************************************************)
\* HMAC with the key and the message named
HMAC(key, message) == SubtleSignHmac(key, message)

ClientKeyLabel == Utf8(Str(<<"C", "l", "i", "e", "n", "t", " ", "K", "e", "y">>))

ServerKeyLabel == Utf8(Str(<<"S", "e", "r", "v", "e", "r", " ", "K", "e", "y">>))

\* C27 as stated: the proof of the client-final createClientFinalMessage
\* returns is ClientKey XOR the client signature, and the verifier of the
\* server-final createServerFinalMessage returns is the server signature,
\* where ClientKey and ServerKey are HMACs keyed by the salted password over
\* "Client Key" and "Server Key", StoredKey is Hash(ClientKey), and the two
\* signatures are HMACs keyed by StoredKey and ServerKey over the transcript
C27_HmacKeyedByFirstArgument ==
    /\ Returned("client", "createClientFinalMessage") =>
        LET ClientKey == HMAC(callerSaltedPassword, ClientKeyLabel)
            StoredKey == SubtleDigest(ClientKey)
            ClientSignature == HMAC(StoredKey, Transcript(client))
        IN  /\ getClientKey(callerSaltedPassword) = ClientKey
            /\ getStoredKey(callerSaltedPassword) = StoredKey
            /\ ret.value.clientProof =
                    Base64FromUint8Array(xorArrayBuffer(ClientKey, ClientSignature))
    /\ (Returned("server", "createServerFinalMessage")
            /\ ret.value.verifier # FalseValue) =>
        LET ServerKey == HMAC(RegisteredSaltedPassword(RegistrationOfUser), ServerKeyLabel)
        IN  /\ getServerKey(RegisteredSaltedPassword(RegistrationOfUser)) = ServerKey
            /\ ret.value.verifier =
                    Base64FromUint8Array(HMAC(ServerKey, Transcript(server)))

(***************************************************************************)
(* C28.  The salted password the client derives during an exchange equals  *)
(* the one derived at registration: for every password, salt and iteration *)
(* count within the maximum, client.getSaltedPassword(password) returns    *)
(* PBKDF2(normalize(password), salt, iterations), the same value as        *)
(* ScramAlgo.getSaltedPassword(password, salt, iterations).                *)
(***************************************************************************)
\* what ScramAlgo.getSaltedPassword returns for the passwords callers type,
\* with the salt and the iteration count of the server-first the client holds
NormalizedSaltedPasswords ==
    {AlgoGetSaltedPassword(password, client.serverFirstMessage.salt,
                           client.serverFirstMessage.iterations).value :
        password \in Passwords}

\* C28 as stated: what client.getSaltedPassword returns is what
\* ScramAlgo.getSaltedPassword returns for a password the caller types, with
\* the salt and the iteration count of the server-first
C28_ClientSaltedPasswordIsNormalized ==
    Returned("client", "getSaltedPassword") =>
        ret.value \in NormalizedSaltedPasswords

(***************************************************************************)
(* C29.  createServerFirstMessage returns and stores a message             *)
(* r=<nonce>,s=<base64 salt>,i=<iterations> whose nonce is the client      *)
(* nonce of the stored client-first message followed by a server nonce     *)
(* generated freshly in that call, and whose salt and iteration count are  *)
(* those of the stored user when the user exists.                          *)
(***************************************************************************)
\* the server-first messages issued before the last call: the one the
\* client holds and those an earlier exchange left on the transport
ServerFirstsBefore ==
    (IF client.serverFirstMessage = None THEN {} ELSE {client.serverFirstMessage})
        \cup recorded["serverFirstMessage"]

\* the part of the nonce that follows the client nonce
ServerNonceOf(message, c_nonce) ==
    SubSeq(message.nonce, Len(c_nonce) + 1, Len(message.nonce))

\* the text ends with the characters of `tail`
EndsWith(text, tail) ==
    /\ Len(tail) <= Len(text)
    /\ SubSeq(text, Len(text) - Len(tail) + 1, Len(text)) = tail

\* C29: the message createServerFirstMessage returns is the one it stores;
\* its text is r=, its nonce, ,s=, the Base64 of its salt, ,i= and its
\* iteration count; its nonce is the client nonce of the stored client-first
\* followed by the Base64 of the random buffer drawn in this call, which
\* ends no nonce issued before; and for a user of the repository its salt
\* and its iteration count are the stored ones
C29_ServerFirstCarriesFreshNonceAndStoredSalt ==
    Returned("server", "createServerFirstMessage") =>
        LET username == server.clientFirstMessage.user
            c_nonce == server.clientFirstMessage.nonce
            s_nonce == ServerNonceOf(ret.value, c_nonce)
        IN  /\ server.serverFirstMessage = ret.value
            /\ ret.value.message =
                  Str(<<"r", "=">>) \o ret.value.nonce
                      \o Str(<<",", "s", "=">>) \o Base64FromUint8Array(ret.value.salt)
                      \o Str(<<",", "i", "=">>) \o NatToString(ret.value.iterations)
            /\ ret.value.nonce = c_nonce \o s_nonce
            /\ s_nonce = Base64FromUint8Array(RandomValues(drawn, NonceBytes))
            /\ \A earlier \in ServerFirstsBefore : ~EndsWith(earlier.nonce, s_nonce)
            /\ ~EndsWith(c_nonce, s_nonce)
            /\ RepoHas(repo, username) =>
                  /\ ret.value.salt = repo[username].salt
                  /\ ret.value.iterations = repo[username].iterations

\* C29: a user of the repository has been issued a second server-first in
\* the exchange
C29_Witness ==
    /\ Returned("server", "createServerFirstMessage")
    /\ RepoHas(repo, server.clientFirstMessage.user)
    /\ IssuedEarlier
    /\ ret.value.salt = repo[server.clientFirstMessage.user].salt
    /\ ret.value.nonce # client.serverFirstMessage.nonce

(***************************************************************************)
(* C30.  createClientFinalMessage returns and stores a message             *)
(* c=<base64 of the GS2 header "n,,">,r=<nonce of the stored server-first  *)
(* message>,p=<proof> in which the proof is base64(ClientKey XOR           *)
(* HMAC(StoredKey, transcript)) and the transcript is built from the       *)
(* stored client-first, the stored server-first and the c=...,r=... part   *)
(* of this very message.  HMAC(a, b) is read as the call hmac(a, b) of the *)
(* algorithm object, as in C25.                                            *)
(***************************************************************************)
\* c=<base64 of "n,,">,r=<nonce of the server-first the client holds>
ChannelAndNonce ==
    Str(<<"c", "=">>) \o Base64Encode(Str(<<"n", ",", ",">>))
        \o Str(<<",", "r", "=">>) \o client.serverFirstMessage.nonce

HeldUsernames == {Str(<<"u">>), Str(<<"x">>)} \cup InheritedNames

\* the passwords typed: the one that derives the registered salted password
\* of "u", and another
HeldPasswords == {Str(<<"q">>), Str(<<"p">>)}

\* the client after createClientFirstMessage(user)
ClientAfterFirst(user) ==
    Assigned(ScramRequestClient(DEFAULT_MAX_ITERATIONS), "clientFirstMessage",
             CreateClientFirstMessage(ScramRequestClient(DEFAULT_MAX_ITERATIONS), user, 1))

\* the client-first messages the server may be handed for the one the client
\* created: with the GS2 flag n or y, with or without an extension
HeldClientFirsts(message) ==
    BuiltOf({ScramMessageClientFirst(RewriteClientFirst(message, flag, ext)) :
                flag \in {Str(<<"n">>), Str(<<"y">>)},
                ext \in {<<>>, Str(<<"m", "=", "x", ",">>)}})

\* the server-first the server holds for a client-first: the one
\* createServerFirstMessage returns, or, where that call throws, one handed
\* to setServerFirstMessage
HeldServerFirst(request) ==
    LET outcome == CreateServerFirstMessage(request, TestRepo, 2)
        username == request.clientFirstMessage.user
        text == Str(<<"r", "=">>) \o request.clientFirstMessage.nonce
                    \o Base64FromUint8Array(RandomValues(2, NonceBytes))
                    \o Str(<<",", "s", "=">>)
                    \o Base64FromUint8Array(PepperedSalt(username))
                    \o Str(<<",", "i", "=">>)
                    \o NumberToString(Num(request.iterations))
    IN  IF outcome.threw THEN ScramMessageServerFirst(text).msg ELSE outcome.value

\* the client-final text a holder of saltedPassword writes for a nonce: the
\* proof is computed as createClientFinalMessage computes it, over the
\* transcript that ends with c=...,r=<nonce>
ClientFinalTextFor(request, saltedPassword, nonce) ==
    LET withoutProof ==
            Str(<<"c", "=">>) \o Base64Encode(request.gs2_header \o <<COMMA>>)
                \o Str(<<",", "r", "=">>) \o nonce
        clientSignature ==
            hmac(getStoredKey(saltedPassword), getAuthMessage(request, withoutProof))
    IN  withoutProof \o Str(<<",", "p", "=">>)
            \o ClientProof(getClientKey(saltedPassword), clientSignature)

\* the client-final messages the server may be handed: the one the client
\* created, one with the first byte of its proof altered, and one written
\* by the holder of the salted password for the client nonce alone
HeldClientFinals(request, saltedPassword) ==
    LET created == CreateClientFinalMessage(request, saltedPassword).value
        bytes == Base64ToUint8Array(created.clientProof)
        altered == Base64FromUint8Array([bytes EXCEPT ![1] = XorByte(@, FlipByte)])
    IN  {created}
        \cup BuiltOf({ScramMessageClientFinal(
                         created.messageWithoutProof \o Str(<<",", "p", "=">>) \o altered),
                      ScramMessageClientFinal(
                         ClientFinalTextFor(request, saltedPassword,
                                            request.clientFirstMessage.nonce))})

\* the server-final messages the client may be handed: the one the server
\* creates, and one that carries an error together with the verifier the
\* client expects
HeldServerFinals(request, users, expected) ==
    {CreateServerFinalMessage(request, users).value}
    \cup BuiltOf({ScramMessageServerFinal(
                     Str(<<"e", "=">>) \o SCRAM_OTHER_ERROR
                         \o Str(<<",", "v", "=">>) \o expected)})

\* the pairs of a client and a server that hold their messages after the
\* client created a client-first for `user`, the server was handed `first`
\* for it, and the client derived its salted password from `password`
HeldOf(user, conceal, first, password) ==
    LET handed == [ScramRequestServer(DefaultIterations, conceal)
                      EXCEPT !.clientFirstMessage = first]
        answering == [handed EXCEPT !.serverFirstMessage = HeldServerFirst(handed)]
        answered == [ClientAfterFirst(user)
                        EXCEPT !.serverFirstMessage = answering.serverFirstMessage]
        saltedPassword == ClientGetSaltedPassword(answered, password).value
        proving == [answered EXCEPT !.clientFinalMessage =
                        CreateClientFinalMessage(answered, saltedPassword).value]
    IN  UNION {{[client |-> [proving EXCEPT !.serverFinalMessage = serverFinal],
                 server |-> [answering EXCEPT !.clientFinalMessage = final],
                 saltedPassword |-> saltedPassword] :
                    serverFinal \in HeldServerFinals(
                        [answering EXCEPT !.clientFinalMessage = final], TestRepo,
                        ExpectedVerifier(proving, saltedPassword))} :
               final \in HeldClientFinals(answered, saltedPassword)}

HeldExchanges ==
    UNION {UNION {HeldOf(user, conceal, first, password) :
                     first \in HeldClientFirsts(ClientAfterFirst(user).clientFirstMessage),
                     password \in HeldPasswords} :
              user \in HeldUsernames, conceal \in BOOLEAN}

\* user names with a comma, an equals sign or a space in them
OddUsernames ==
    {Str(<<"a", ",", "b">>), Str(<<"a", "=", "b">>), Str(<<" ", "a">>)}

InitHeld ==
    /\ \E held \in HeldExchanges :
          /\ client = held.client
          /\ server = held.server
          /\ callerSaltedPassword = held.saltedPassword
    /\ repo = TestRepo
    /\ ret = NoCall
    /\ recorded = [slot \in Slots |-> {}]
    /\ exchanges = 1
    /\ drawn = 2
    /\ deviations = 0
    /\ pairs = <<>>
    /\ parsing = None
    /\ salting = None
    /\ running = None

NextHeld ==
    \/ ServerCreateServerFinalMessage
    \/ ServerVerifyClientFinalMessage
    \/ ClientVerifyServerFinalMessage
    \/ \E user \in OddUsernames : ClientCreateClientFirstMessage(user)

SpecHeld == InitHeld /\ [][NextHeld]_vars

(***************************************************************************)
(* C31.  An error in the server-final takes priority over a verifier:      *)
(* client.verifyServerFinalMessage returns false whenever the stored       *)
(* server-final carries an error, also when the same message carries a     *)
(* verifier that matches the expected value; with all four slots set it    *)
(* returns a boolean and never throws.                                     *)
(***************************************************************************)
\* the client holds a message in each of its four slots
ClientHoldsAll == \A slot \in Slots : client[slot] # None

\* C31: with the four slots set, verifyServerFinalMessage returns a boolean,
\* and it returns false whenever the server-final held carries an error
C31_ErrorTakesPriorityOverVerifier ==
    (LastCall("client", "verifyServerFinalMessage") /\ ClientHoldsAll) =>
        /\ ~ret.threw
        /\ ret.value \in BOOLEAN
        /\ client.serverFinalMessage.error # FalseValue => ret.value = FALSE

(***************************************************************************)
(* C32.  Concealment changes only the outgoing error token: for the same   *)
(* repository and the same three input messages, a server with             *)
(* concealErrors on and one with it off agree on whether                   *)
(* createServerFinalMessage issues a verifier or an error, issue the same  *)
(* verifier, and return the same result from verifyClientFinalMessage.     *)
(***************************************************************************)
\* the server holds the three messages createServerFinalMessage reads
ServerHoldsThree ==
    /\ server.clientFirstMessage # None
    /\ server.serverFirstMessage # None
    /\ server.clientFinalMessage # None

\* the server that differs from this one in concealErrors alone
Concealing(conceal) == [server EXCEPT !.concealErrors = conceal]

\* C32: on the messages the server holds, createServerFinalMessage with
\* concealErrors on and with it off both return a message, both with a
\* verifier or both with an error, the verifier is the same, and
\* verifyClientFinalMessage ends the same way; the call the server made
\* ended as the call of the server with its own setting
C32_ConcealmentChangesOnlyErrorToken ==
    ServerHoldsThree =>
        LET on == CreateServerFinalMessage(Concealing(TRUE), repo)
            off == CreateServerFinalMessage(Concealing(FALSE), repo)
            own == IF server.concealErrors THEN on ELSE off
        IN  /\ ~on.threw /\ ~off.threw
            /\ on.value.verifier = off.value.verifier
            /\ (on.value.error = FalseValue) <=> (off.value.error = FalseValue)
            /\ VerifyClientFinalMessage(Concealing(TRUE), repo)
                  = VerifyClientFinalMessage(Concealing(FALSE), repo)
            /\ LastCall("server", "createServerFinalMessage") =>
                  ~ret.threw /\ ret.value = own.value
            /\ LastCall("server", "verifyClientFinalMessage") =>
                  LET other == VerifyClientFinalMessage(
                                   Concealing(~server.concealErrors), repo)
                  IN  ret.threw = other.threw /\ (~ret.threw => ret.value = other.value)

\* C32: a concealing server has answered a client-final with other-error
\* where the server that does not conceal answers invalid-proof
C32_Witness ==
    /\ ServerHoldsThree
    /\ server.concealErrors
    /\ Returned("server", "createServerFinalMessage")
    /\ ret.value.error = SCRAM_OTHER_ERROR
    /\ CreateServerFinalMessage(Concealing(FALSE), repo).value.error = SCRAM_INVALID_PROOF

(***************************************************************************)
(* C33.  Every error token that createServerFinalMessage puts in a         *)
(* server-final is one of the eleven canonical tokens, for every failure   *)
(* the operation catches.                                                  *)
(***************************************************************************)
SCRAM_INVALID_ENCODING ==
    Str(<<"i", "n", "v", "a", "l", "i", "d", "-", "e", "n", "c", "o", "d",
        "i", "n", "g">>)

SCRAM_CHANNEL_BINDINGS_DONT_MATCH ==
    Str(<<"c", "h", "a", "n", "n", "e", "l", "-", "b", "i", "n", "d", "i",
        "n", "g", "s", "-", "d", "o", "n", "t", "-", "m", "a", "t", "c",
        "h">>)

SCRAM_SERVER_DOES_SUPPORT_CHANNEL_BINDING ==
    Str(<<"s", "e", "r", "v", "e", "r", "-", "d", "o", "e", "s", "-", "s",
        "u", "p", "p", "o", "r", "t", "-", "c", "h", "a", "n", "n", "e", "l",
        "-", "b", "i", "n", "d", "i", "n", "g">>)

SCRAM_UNSUPPORTED_CHANNEL_BINDING_TYPE ==
    Str(<<"u", "n", "s", "u", "p", "p", "o", "r", "t", "e", "d", "-", "c",
        "h", "a", "n", "n", "e", "l", "-", "b", "i", "n", "d", "i", "n", "g",
        "-", "t", "y", "p", "e">>)

SCRAM_INVALID_USERNAME_ENCODING ==
    Str(<<"i", "n", "v", "a", "l", "i", "d", "-", "u", "s", "e", "r", "n",
        "a", "m", "e", "-", "e", "n", "c", "o", "d", "i", "n", "g">>)

SCRAM_NO_RESOURCES ==
    Str(<<"n", "o", "-", "r", "e", "s", "o", "u", "r", "c", "e", "s">>)

\* the error tokens of ScramError.ts
CanonicalTokens ==
    {SCRAM_INVALID_ENCODING, SCRAM_EXTENSIONS_NOT_SUPPORTED, SCRAM_INVALID_PROOF,
     SCRAM_CHANNEL_BINDINGS_DONT_MATCH, SCRAM_SERVER_DOES_SUPPORT_CHANNEL_BINDING,
     SCRAM_CHANNEL_BINDING_NOT_SUPPORTED, SCRAM_UNSUPPORTED_CHANNEL_BINDING_TYPE,
     SCRAM_UNKNOWN_USER, SCRAM_INVALID_USERNAME_ENCODING, SCRAM_NO_RESOURCES,
     SCRAM_OTHER_ERROR}

\* C33: the error of every server-final that createServerFinalMessage
\* returns is one of the eleven canonical tokens
C33_ErrorTokensAreCanonical ==
    (Returned("server", "createServerFinalMessage") /\ ret.value.error # FalseValue) =>
        ret.value.error \in CanonicalTokens

(***************************************************************************)
(* The parameter reader on its own: readScramParamString is applied to     *)
(* texts made of the segments below, which have a key read twice, a        *)
(* segment without "=", a value with "=" in it, a key that begins with     *)
(* another, and spaces around a key and a value.                           *)
(***************************************************************************)
ParamParts ==
    {Str(<<"n", "=", "u">>), Str(<<"n", "=", "u", "=", "v">>), Str(<<"n">>),
     Str(<<"n", "x", "=", "y">>), Str(<<" ", "n", "=", " ", "w", " ">>), <<>>}

ParamTexts == TextsOf(ParamParts)

\* readScramParamString(text)
ReadScramParamString ==
    Read("readScramParamString", Built(readScramParamString(parsing.text)))

InitParams ==
    /\ client = ScramRequestClient(DEFAULT_MAX_ITERATIONS)
    /\ server = ScramRequestServer(DefaultIterations, FALSE)
    /\ repo = TestRepo
    /\ callerSaltedPassword = NoBytes
    /\ ret = NoCall
    /\ recorded = [slot \in Slots |-> {}]
    /\ exchanges = 1
    /\ drawn = 0
    /\ deviations = 0
    /\ pairs = <<>>
    /\ salting = None
    /\ running = None
    /\ parsing \in {[text |-> text, class |-> "", result |-> None] : text \in ParamTexts}

NextParams == ReadScramParamString

SpecParams == InitParams /\ [][NextParams]_vars

(***************************************************************************)
(* C34.  The parameter reader splits the message on commas and each        *)
(* segment on its first "=", ignores every segment without "=", and keeps  *)
(* the value of the last occurrence of a key; so for every message the     *)
(* value read for a key is the value of the last segment that starts with  *)
(* that key.                                                               *)
(***************************************************************************)
\* the segments of a text
Segments(text) == Split(text, <<COMMA>>)

HasEquals(segment) == IndexOf(segment, <<EQUALS>>, 0) # -1

\* what a segment has before its first "=" and after it
KeyOf(segment) == Substring(segment, 0, IndexOf(segment, <<EQUALS>>, 0))

ValueOf(segment) ==
    Substring(segment, IndexOf(segment, <<EQUALS>>, 0) + 1, Len(segment))

\* the segments of a text that start with key and "="
SegmentsOf(text, key) ==
    SelectSeq(Segments(text), LAMBDA segment : HasEquals(segment) /\ KeyOf(segment) = key)

\* C34: the keys read are those of the segments that have an "=", and the
\* value read for a key is the value of the last segment that starts with
\* that key
C34_ValueOfLastSegmentOfKey ==
    ReadAs("readScramParamString") =>
        LET params == parsing.result.msg
            segments == Segments(parsing.text)
        IN  /\ DOMAIN params =
                  {KeyOf(segments[k]) : k \in {j \in 1..Len(segments) : HasEquals(segments[j])}}
            /\ \A key \in DOMAIN params :
                  LET of == SegmentsOf(parsing.text, key)
                  IN  of # <<>> /\ params[key] = ValueOf(of[Len(of)])

\* the segments of a text that have an "="
Assignments(text) == SelectSeq(Segments(text), HasEquals)

\* the assignments of a text to a key, spaces around the key left aside
AssignmentsTo(text, key) ==
    SelectSeq(Assignments(text), LAMBDA segment : Trim(KeyOf(segment)) = key)

\* C34, amended: the keys read are the trimmed keys of the segments that
\* have an "=", and the value read for a key is the trimmed value of the
\* last segment whose trimmed key it is
C34_TrimmedValueOfLastSegmentOfKey ==
    ReadAs("readScramParamString") =>
        LET params == parsing.result.msg
            with == Assignments(parsing.text)
        IN  /\ DOMAIN params = {Trim(KeyOf(with[k])) : k \in 1..Len(with)}
            /\ \A key \in DOMAIN params :
                  LET of == AssignmentsTo(parsing.text, key)
                  IN  of # <<>> /\ params[key] = Trim(ValueOf(of[Len(of)]))

\* C34: a text was read in which a key is assigned twice with different
\* values, once with spaces around it, and which has a segment without "="
C34_Witness ==
    /\ ReadAs("readScramParamString")
    /\ \E key \in DOMAIN parsing.result.msg :
          LET of == AssignmentsTo(parsing.text, key)
          IN  /\ Len(of) >= 2
              /\ Trim(ValueOf(of[1])) # Trim(ValueOf(of[Len(of)]))
              /\ \E k \in 1..Len(of) : KeyOf(of[k]) # key
    /\ Len(Assignments(parsing.text)) < Len(Segments(parsing.text))

(***************************************************************************)
(* C35.  The server's decision is consistent: where client-first,          *)
(* server-first and client-final are set, verifyClientFinalMessage()       *)
(* returns true only if createServerFinalMessage on the same state returns *)
(* a verifier; it never returns true for an exchange whose server-final is *)
(* an error such as channel-binding-not-supported or                       *)
(* extensions-not-supported.                                               *)
(***************************************************************************)
\* C35: whenever verifyClientFinalMessage has returned true, the message
\* createServerFinalMessage returns on the messages the server holds
\* carries a verifier and no error
C35_VerifiedOnlyIfVerifierIssued ==
    (ServerHoldsThree /\ Returned("server", "verifyClientFinalMessage")
        /\ ret.value = TRUE) =>
        LET final == CreateServerFinalMessage(server, repo)
        IN  /\ ~final.threw
            /\ final.value.verifier # FalseValue
            /\ final.value.error = FalseValue

(***************************************************************************)
(* C36.  The server accepts a client-final only if its nonce r equals the  *)
(* combined nonce the server issued in its server-first:                   *)
(* verifyClientFinalMessage() returns false and createServerFinalMessage   *)
(* returns an error for every client-final whose r differs from the nonce  *)
(* of the stored server-first, whatever proof it carries.                  *)
(***************************************************************************)
\* the server holds a client-final with another nonce than its server-first
OtherNonceHeld ==
    /\ ServerHoldsThree
    /\ server.clientFinalMessage.nonce # server.serverFirstMessage.nonce

\* C36: for a client-final with another nonce than the server-first,
\* verifyClientFinalMessage does not return true and the message
\* createServerFinalMessage returns carries an error and no verifier
C36_OtherNonceNeverAccepted ==
    OtherNonceHeld =>
        /\ LastCall("server", "verifyClientFinalMessage") =>
              ~(~ret.threw /\ ret.value = TRUE)
        /\ LastCall("server", "createServerFinalMessage") =>
              /\ ~ret.threw
              /\ ret.value.error # FalseValue
              /\ ret.value.verifier = FalseValue

(***************************************************************************)
(* C37.  The client proceeds only with a server-first that answers its own *)
(* client-first: getSaltedPassword and createClientFinalMessage fail when  *)
(* the nonce of the stored server-first does not begin with the client     *)
(* nonce of the stored client-first, so no client proof is ever produced   *)
(* for a server-first nonce that lacks the client's nonce.                 *)
(***************************************************************************)
StartsWith(text, head) ==
    Len(head) <= Len(text) /\ SubSeq(text, 1, Len(head)) = head

\* the client holds a server-first whose nonce does not begin with the
\* nonce of the client-first it holds
ServerFirstOfAnotherNonce ==
    /\ client.clientFirstMessage # None
    /\ client.serverFirstMessage # None
    /\ ~StartsWith(client.serverFirstMessage.nonce, client.clientFirstMessage.nonce)

\* C37: getSaltedPassword and createClientFinalMessage throw whenever the
\* server-first the client holds does not begin with its client nonce
C37_ClientRefusesServerFirstOfAnotherNonce ==
    (ServerFirstOfAnotherNonce
        /\ (LastCall("client", "getSaltedPassword")
              \/ LastCall("client", "createClientFinalMessage"))) =>
        ret.threw

(***************************************************************************)
(* createServerFinalMessage at the grain of its awaits.  The call runs up  *)
(* to `await this.algo.hmac(serverKey, authMessage)` when it is made, is   *)
(* resumed to call verifyClientFinalMessage, which reads the slots as they *)
(* are then and is suspended in turn, and is resumed again to assign the   *)
(* server-final.  `running` holds the frame of the call; the setters of    *)
(* the server run between the steps.                                       *)
(***************************************************************************)
\* the setter calls made while one createServerFinalMessage is suspended
MaxSetterCalls == 1

\* the client-final the server holds and the transcript getAuthMessage makes
\* of the three slots
TranscriptHeld(request) ==
    [final |-> request.clientFinalMessage,
     authMessage |->
         getAuthMessage(request, request.clientFinalMessage.messageWithoutProof)]

\* createServerFinalMessage from the head of its try block to its first
\* await: the checks, the lookup, the server key and the signature asked for
SignedBeforeAwait(request, users) ==
    LET username == request.clientFirstMessage.user
        found == RepoFind(users, username)
        failed(code) == [ok |-> FALSE, errorCode |-> code, proof |-> <<>>]
    IN  IF Truthy(request.clientFirstMessage.mext)
        THEN failed(SCRAM_EXTENSIONS_NOT_SUPPORTED)
        ELSE IF request.clientFirstMessage.gs2CbindFlag # Str(<<"n">>)
        THEN failed(SCRAM_CHANNEL_BINDING_NOT_SUPPORTED)
        ELSE IF ~found.ok THEN failed(found.errorCode)
        ELSE IF ~IsScramUser(found.user) THEN failed(UndefinedText)
        ELSE [ok |-> TRUE, errorCode |-> <<>>,
              proof |-> ServerVerifier(request, found.user)]

\* the frame of a call that ended with `text` assigned to the server-final
Ended(frame, text) == [frame EXCEPT !.stage = "done", !.text = text]

\* the messages that arrive while the call is suspended, which a caller can
\* hand to the setter of a slot of the server: the client-first of the client
\* with its header or an extension rewritten, the server-first the client
\* holds or one written with the nonce of another draw, and the client-finals
\* the client can write
Arriving(slot) ==
    CASE slot = "clientFirstMessage" -> HeldClientFirsts(client.clientFirstMessage)
      [] slot = "serverFirstMessage" ->
            {client.serverFirstMessage}
            \cup BuiltOf({ScramMessageServerFirst(ServerFirstText(server, repo, drawn + 1))})
      [] slot = "clientFinalMessage" -> HeldClientFinals(client, callerSaltedPassword)

\* server.createServerFinalMessage() up to its first await
AwaitCreateServerFinalMessage ==
    /\ running = None
    /\ IF /\ server.clientFirstMessage # None
          /\ server.serverFirstMessage # None
          /\ server.clientFinalMessage # None
       THEN LET signed == SignedBeforeAwait(server, repo)
                frame == [stage |-> "hmac", proof |-> signed.proof,
                          signedOver |-> TranscriptHeld(server),
                          verifiedOver |-> None, verified |-> Return(FALSE),
                          text |-> <<>>, sets |-> 0]
                text == ServerFinalErrorText(server.concealErrors, signed.errorCode)
                outcome == Construct(ScramMessageServerFinal(text))
            IN  IF signed.ok
                THEN /\ running' = frame
                     /\ UNCHANGED <<server, ret>>
                ELSE /\ running' = Ended(frame, text)
                     /\ server' = Assigned(server, "serverFinalMessage", outcome)
                     /\ ret' = Called("server", "createServerFinalMessage", outcome)
       ELSE /\ ret' = Called("server", "createServerFinalMessage",
                         Throw("Unable to create server-final-message, missing client-first-message, server-first-message, or client-final-message."))
            /\ UNCHANGED <<server, running>>
    /\ UNCHANGED <<client, repo, callerSaltedPassword, recorded, exchanges, drawn,
                   deviations, pairs, parsing, salting>>

\* the call resumed with the signature: it calls verifyClientFinalMessage,
\* which reads the slots and is suspended at its own awaits
AwaitVerifyClientFinalMessage ==
    /\ running # None
    /\ running.stage = "hmac"
    /\ running' = [running EXCEPT !.stage = "verify",
                                  !.verifiedOver = TranscriptHeld(server),
                                  !.verified = VerifyClientFinalMessage(server, repo)]
    /\ UNCHANGED <<client, server, repo, callerSaltedPassword, ret, recorded,
                   exchanges, drawn, deviations, pairs, parsing, salting>>

\* the call resumed with what verifyClientFinalMessage returned or threw: it
\* assigns the server-final and returns it
AwaitAssignServerFinalMessage ==
    /\ running # None
    /\ running.stage = "verify"
    /\ LET text == IF running.verified.threw
                   THEN ServerFinalErrorText(server.concealErrors, UndefinedText)
                   ELSE IF ~running.verified.value
                   THEN ServerFinalErrorText(server.concealErrors, SCRAM_INVALID_PROOF)
                   ELSE Str(<<"v", "=">>) \o running.proof
           outcome == Construct(ScramMessageServerFinal(text))
       IN  /\ running' = Ended(running, text)
           /\ server' = Assigned(server, "serverFinalMessage", outcome)
           /\ ret' = Called("server", "createServerFinalMessage", outcome)
    /\ UNCHANGED <<client, repo, callerSaltedPassword, recorded, exchanges, drawn,
                   deviations, pairs, parsing, salting>>

\* a setter of the server called while createServerFinalMessage is suspended
AwaitSetMessage(slot) ==
    /\ running # None
    /\ running.stage \in {"hmac", "verify"}
    /\ running.sets < MaxSetterCalls
    /\ \E message \in Arriving(slot) :
          /\ server' = [server EXCEPT ![slot] = message]
          /\ ret' = Called("server", slot, Return(message))
    /\ running' = [running EXCEPT !.sets = @ + 1]
    /\ UNCHANGED <<client, repo, callerSaltedPassword, recorded, exchanges, drawn,
                   deviations, pairs, parsing, salting>>

AwaitSetClientFirstMessage == AwaitSetMessage("clientFirstMessage")

AwaitSetServerFirstMessage == AwaitSetMessage("serverFirstMessage")

AwaitSetClientFinalMessage == AwaitSetMessage("clientFinalMessage")

InitAwait ==
    /\ \E held \in HeldExchanges :
          /\ client = [held.client EXCEPT !.serverFinalMessage = None]
          /\ server = held.server
          /\ callerSaltedPassword = held.saltedPassword
    /\ repo = TestRepo
    /\ ret = NoCall
    /\ recorded = [slot \in Slots |-> {}]
    /\ exchanges = 1
    /\ drawn = 2
    /\ deviations = 0
    /\ pairs = <<>>
    /\ parsing = None
    /\ salting = None
    /\ running = None

NextAwait ==
    \/ AwaitCreateServerFinalMessage
    \/ AwaitVerifyClientFinalMessage
    \/ AwaitAssignServerFinalMessage
    \/ AwaitSetClientFirstMessage
    \/ AwaitSetServerFirstMessage
    \/ AwaitSetClientFinalMessage

SpecAwait == InitAwait /\ [][NextAwait]_vars

(***************************************************************************)
(* C38.  A setter that runs while createServerFinalMessage is suspended    *)
(* at an await cannot make the result inconsistent: whenever the call ends *)
(* with a verifier issued, the client-final whose proof was verified, and  *)
(* the transcript it was verified over, are the client-final and the       *)
(* transcript the verifier was computed over.                              *)
(***************************************************************************)
VerifierIssued ==
    /\ running # None
    /\ running.stage = "done"
    /\ Returned("server", "createServerFinalMessage")
    /\ ret.value.verifier # FalseValue

C38_VerifierOverTheTranscriptVerified ==
    VerifierIssued => running.verifiedOver = running.signedOver

(***************************************************************************)
(* C39.  An operation that fails leaves the exchange unchanged: when       *)
(* createServerFirstMessage, getSaltedPassword, createClientFinalMessage,  *)
(* createServerFinalMessage, verifyClientFinalMessage or                   *)
(* verifyServerFinalMessage throws for an unset slot, or getSaltedPassword *)
(* throws on the iteration limit, all four slots of the client and of the  *)
(* server hold the values they held before the call; and the two verify    *)
(* operations and getSaltedPassword change no slot when they succeed       *)
(* either.                                                                 *)
(***************************************************************************)
\* the operations that throw for an unset slot
GuardedOperations ==
    {"createServerFirstMessage", "getSaltedPassword", "createClientFinalMessage",
     "createServerFinalMessage", "verifyClientFinalMessage", "verifyServerFinalMessage"}

\* the operations that read the slots and assign none
ReadingOperations ==
    {"verifyClientFinalMessage", "verifyServerFinalMessage", "getSaltedPassword"}

\* the call just made failed on a precondition or on the iteration limit
FailedOnPrecondition(call) ==
    /\ call.op \in GuardedOperations
    /\ call.threw
    /\ \/ call.error \in PreconditionErrors
       \/ call.op = "getSaltedPassword" /\ call.error = "Iteration count exceeed maximum"

SlotsUnchanged ==
    \A slot \in Slots : client'[slot] = client[slot] /\ server'[slot] = server[slot]

C39_FailedOrReadingCallChangesNoSlot ==
    [][(FailedOnPrecondition(ret') \/ ret'.op \in ReadingOperations) => SlotsUnchanged]_<<client, server>>

\* createServerFinalMessage threw for the missing client-final on a server
\* that holds the client-first and the server-first
C39_Witness ==
    /\ LastCall("server", "createServerFinalMessage")
    /\ FailedOnPrecondition(ret)
    /\ server.clientFirstMessage # None
    /\ server.serverFirstMessage # None

(***************************************************************************)
(* C40.  createClientFirstMessage round-trips the user name: for a user    *)
(* name with a comma, an equals sign or a leading space in it, the message *)
(* it returns is a client-first whose user is the normalized form of the   *)
(* name, whose channel-binding flag is "n", whose nonce is the one just    *)
(* generated, and which carries no m extension.                            *)
(***************************************************************************)
\* createClientFirstMessage(user) was the last call and returned the message
\* built of the text it wrote for `user`
CreatedFirstFor(user) ==
    /\ Returned("client", "createClientFirstMessage")
    /\ ret.value.message = ClientFirstText(client, user, drawn)

C40_ClientFirstRoundTripsUsername ==
    \A user \in OddUsernames :
        CreatedFirstFor(user) =>
            /\ ret.value.user = saslPrep(user).value
            /\ ret.value.gs2CbindFlag = Str(<<"n">>)
            /\ ret.value.nonce = Base64FromUint8Array(RandomValues(drawn, NonceBytes))
            /\ ~Truthy(ret.value.mext)

====
